---- MODULE Spec2Model ----
(***************************************************************************)
(* Model of the server-side managers of the roleplay gamemode:             *)
(*   PropertyManager (src/unnamed/part_004),                               *)
(*   VehicleManager  (src/server/systems/vehicles/VehicleManager.ts),      *)
(*   AdminManager    (src/server/systems/admin/AdminManager.ts),           *)
(*   FactionManager  (src/server/systems/factions/FactionManager.ts).      *)
(*                                                                         *)
(* Every manager keeps an in-memory index beside the relational store.     *)
(* A public operation is an async function: it runs synchronously up to    *)
(* its next awaited store query, and other operations may run while the    *)
(* query is pending.  A call is therefore a record in `calls` whose pc     *)
(* names the query it is waiting for; one action of the model executes     *)
(* the pending query on the store and then the code up to the next await.  *)
(* A nested `await this.giveKey(...)` resumes its caller in the same       *)
(* microtask run, so the nested return and the caller's code up to its     *)
(* next query are one step.                                                *)
(*                                                                         *)
(* null is modelled as 0 (character ids start at 1).  Money amounts are    *)
(* integers.                                                               *)
(***************************************************************************)
EXTENDS Integers, Sequences, FiniteSets, TLC

VARIABLES
  calls,            \* the operations started so far, in start order
  faults,           \* store failures the environment may still inject
  properties,       \* PropertyManager.properties      (memory)
  propertyKeys,     \* PropertyManager.propertyKeys    (memory)
  dbProperties,     \* table properties                (store)
  dbPropertyKeys,   \* table property_keys             (store)
  dbMoney,          \* column characters.money         (store)
  vehicles,         \* VehicleManager.vehicles         (memory)
  vehicleKeys,      \* VehicleManager.vehicleKeys      (memory)
  dbVehicleKeys,    \* table vehicle_keys              (store)
  dbVehicles,       \* table vehicles                  (store)
  engine,           \* player.vehicle.engine of each spawned vehicle
  dbBank,           \* column characters.bank_money    (store)
  session,          \* player.characterData: money, bank_money of each connected player (memory)
  callbacks,        \* EventManager.events.get(topic): the listeners of one topic
  lastEmit,         \* what the last EventManager.emit of that topic did
  adminLevels,      \* AdminManager.adminLevels       (memory)
  dbAdminLevels,    \* table admin_levels             (store)
  dbBans,           \* table player_bans              (store)
  dbMutes,          \* table player_mutes             (store)
  dbWarnings,       \* table player_warnings          (store)
  activeReports,    \* AdminManager.activeReports     (memory)
  dbReports,        \* table player_reports           (store)
  adminActions,     \* AdminManager.adminActions      (memory)
  dbLogs,           \* table admin_logs               (store)
  emitted,          \* the events the AdminManager handed to EventManager.emit
  now,              \* the clock: Date.now() of the server, NOW() of the store
  chars,            \* player.characterData / player.factionData of each character (memory)
  dbChars,          \* table characters: faction_id, faction_rank (store)
  factionRanks,     \* FactionManager.factionRanks     (memory)
  activeWars,       \* FactionManager.activeWars       (memory)
  dbWars,           \* table faction_wars              (store)
  dbFactions,       \* table factions: name, leader_id (store); the id is the index
  dbRanks,          \* table faction_ranks             (store)
  dbInvites         \* table faction_invites           (store)

propVars == <<properties, propertyKeys, dbProperties, dbPropertyKeys>>

vehVars == <<vehicles, vehicleKeys, dbVehicleKeys>>

grantVars == <<adminLevels, dbAdminLevels>>

modVars == <<dbBans, dbMutes, dbWarnings>>

reportVars == <<activeReports, dbReports>>

logVars == <<adminActions, dbLogs, emitted>>

admVars == <<grantVars, modVars, reportVars, logVars>>

\* the faction tables that the kick and war handlers do not touch
facStore == <<dbFactions, dbRanks, dbInvites>>

facVars == <<chars, dbChars, factionRanks, activeWars, dbWars, facStore>>

\* the store side of the vehicles and the engines of the spawned ones
fleetVars == <<dbVehicles, engine>>

\* the balances the EconomyManager handlers work on besides characters.money
ecoVars == <<dbBank, session>>

busVars == <<callbacks, lastEmit>>

vars == <<calls, faults, propVars, dbMoney, vehVars, admVars, now, facVars,
          fleetVars, ecoVars, busVars>>

\* what a PropertyManager step leaves alone
PropOnly == UNCHANGED <<vehVars, admVars, now, facVars, fleetVars, ecoVars, busVars>>

\* what a VehicleManager step leaves alone
VehOnly == UNCHANGED <<propVars, dbMoney, admVars, now, facVars, fleetVars, ecoVars, busVars>>

\* what an AdminManager step leaves alone
AdmOnly == UNCHANGED <<propVars, dbMoney, vehVars, now, facVars, fleetVars, ecoVars, busVars>>

\* what a FactionManager step leaves alone
FacOnly == UNCHANGED <<propVars, dbMoney, vehVars, admVars, now, fleetVars, ecoVars, busVars>>

----------------------------------------------------------------------------
(* Bounds of the model *)

MaxCalls == 2        \* operations started in one behaviour
MaxReportCalls == 3  \* a report operation starts as at most the 3rd call
MaxModCalls == 2     \* a moderation operation starts as at most the 2nd call
MaxGrantCalls == 2   \* setAdminLevel starts as at most the 2nd call
MaxFaults == 1       \* store queries that may fail in one behaviour
Price == 5           \* properties.price of the modelled property
RentPrice == 2       \* properties.rent_price of the modelled property
HighCash == 12       \* the starting balance of character 1
MaxTime == 4         \* the clock stops here
MaxFactionCalls == 2 \* a faction handler starts as at most the 2nd call
InviteTtl == 2       \* clock steps an invitation lasts (the 24 hours of the code)
MaxListeners == 3    \* listeners registered for the topic
MaxEcoCalls == 2     \* an EconomyManager operation starts as at most the 2nd call
MaxVehicles == 2     \* rows the vehicles table may hold

Players == {1, 2}              \* character ids
PropIds == {1}                 \* ids present in the properties table
VehIds == {1}                  \* ids present in the vehicles table
KeyTypes == {"owner", "renter", "spare"}
ModTargets == {1}              \* the characters moderation is aimed at
ReportIds == {1, 2}            \* report ids the commands name

\* AdminManager.logAdminAction keeps this many audit entries in memory
AuditCap == 100

\* VehicleManager.unimpoundVehicle: impoundCost
ImpoundCost == 500

\* VehicleManager.setupDealerships: the price of the model "buffalo"
VehiclePrice == 35000

----------------------------------------------------------------------------
(* Helpers on sequences *)

RECURSIVE SelectSeqNot(_, _, _)
\* Array.filter / DELETE ... WHERE: the rows of s that are NOT of player p
\* with a key type outside `keep`.
SelectSeqNot(s, p, keep) ==
  IF s = <<>> THEN <<>>
  ELSE LET h == Head(s)
           t == SelectSeqNot(Tail(s), p, keep)
       IN IF h.player_id = p /\ h.key_type \notin keep THEN t ELSE <<h>> \o t

Range(s) == {s[k] : k \in 1..Len(s)}

\* number of rows of s that satisfy nothing but "holder is p"
KeyCount(s, p) == Cardinality({k \in 1..Len(s) : s[k].player_id = p})

OwnerKeys(s) == {k \in 1..Len(s) : s[k].key_type = "owner"}

----------------------------------------------------------------------------
(* Calls *)

InFlight == {k \in 1..Len(calls) : calls[k].pc # "done"}

\* the ordinal of the next call to start
NextN == IF calls = <<>> THEN 1 ELSE calls[Len(calls)].n + 1

PropOps == {"purchaseProperty", "sellProperty", "rentProperty", "giveKey", "removeKey"}
VehOps == {"vehicle.giveKey", "vehicle.removeKey"}

\* the holder has a key of the asset, in the store or in memory
HasAnyKey(op, id, pl) ==
  IF op \in PropOps
  THEN \E k \in 1..Len(dbPropertyKeys[id] \o propertyKeys[id]) :
         (dbPropertyKeys[id] \o propertyKeys[id])[k].player_id = pl
  ELSE /\ id \in DOMAIN dbVehicleKeys
       /\ \E k \in 1..Len(dbVehicleKeys[id] \o vehicleKeys[id]) :
            (dbVehicleKeys[id] \o vehicleKeys[id])[k].player_id = pl

\* A call record.  `n` is its ordinal, `during` the ordinals of the calls in
\* flight when it started, `m0` the caller's stored cash, `had` whether the
\* caller held a key of the asset and `imp` whether the vehicle was impounded
\* when it started; ok is the `success` field
\* of the result once pc = "done"; err says a store failure was caught.
NewCall(op, id, pl, kt, pc, ok) ==
  [op |-> op, id |-> id, pl |-> pl, kt |-> kt, pc |-> pc, ok |-> ok,
   err |-> FALSE, n |-> NextN, during |-> {calls[k].n : k \in InFlight},
   m0 |-> dbMoney[pl], had |-> HasAnyKey(op, id, pl),
   imp |-> op \notin PropOps /\ id \in DOMAIN vehicles /\ vehicles[id].impounded]

CanStart == NextN <= MaxCalls

\* The record of a call that starts.  Records of finished calls are history
\* only: when nothing is in flight, all but the latest are forgotten.
StartCall(c) ==
  Append(IF InFlight = {} /\ calls # <<>> THEN <<calls[Len(calls)]>> ELSE calls, c)

Return(i, ok) == [calls EXCEPT ![i].pc = "done", ![i].ok = ok]

Goto(i, pc) == [calls EXCEPT ![i].pc = pc]

----------------------------------------------------------------------------
(* PropertyManager: pure fragments of the handlers *)

\* a SELECT that never finds the holder's key
ExistingKeyNever(rows, playerId) == FALSE

\* giveKey: SELECT * FROM property_keys WHERE property_id = ? AND player_id = ?
\* (and the same query on vehicle_keys)
ExistingKey(rows, playerId) == \E k \in 1..Len(rows) : rows[k].player_id = playerId

\* a sale that pays the vehicle rate (half) instead of 80%
SellPriceHalf(price) == price \div 2

\* sellProperty: Math.floor(property.price * 0.8)
SellPrice(price) == (price * 8) \div 10

\* a memory update that sets the owner and forgets to clear for_sale
PurchaseMemoryKeepsForSale(props, id, buyerId) ==
  [props EXCEPT ![id].owner_id = buyerId]

\* purchaseProperty, "Update memory"
PurchaseMemory(props, id, buyerId) ==
  [props EXCEPT ![id].owner_id = buyerId, ![id].for_sale = FALSE]

\* purchaseProperty, UPDATE properties SET owner_id = ?, for_sale = 0
PurchaseRow(rows, id, buyerId) ==
  [rows EXCEPT ![id].owner_id = buyerId, ![id].for_sale = FALSE]

\* sellProperty: owner_id = NULL, for_sale = 1, rented_by = NULL (row and memory)
SellRow(rows, id) ==
  [rows EXCEPT ![id].owner_id = 0, ![id].for_sale = TRUE, ![id].rented_by = 0]

\* rentProperty: rented_by = renterId (row and memory)
RentRow(rows, id, renterId) == [rows EXCEPT ![id].rented_by = renterId]

\* giveKey: the row it inserts and pushes
KeyRow(playerId, keyType) == [player_id |-> playerId, key_type |-> keyType]

\* a DELETE without the key_type condition
RemoveAnyKeyRows(rows, playerId) == SelectSeqNot(rows, playerId, {})

\* removeKey: DELETE ... AND key_type != "owner", and the same filter in memory
RemoveKeyRows(rows, playerId) == SelectSeqNot(rows, playerId, {"owner"})

\* hasPropertyKey
hasPropertyKey(id, playerId) ==
  id \in DOMAIN propertyKeys /\ ExistingKey(propertyKeys[id], playerId)

\* The key type a call hands to giveKey.
KeyTypeOf(c) ==
  CASE c.op = "purchaseProperty" -> "owner"
    [] c.op = "rentProperty" -> "renter"
    [] OTHER -> c.kt

----------------------------------------------------------------------------
(* PropertyManager.purchaseProperty *)

\* the call and its synchronous checks, up to the SELECT of the buyer's money
purchaseProperty(id, buyerId) ==
  /\ CanStart
  /\ LET go == /\ id \in DOMAIN properties
               /\ properties[id].for_sale
               /\ properties[id].owner_id = 0
     IN calls' = StartCall(NewCall("purchaseProperty", id, buyerId, "owner",
                                       IF go THEN "money" ELSE "done", FALSE))
  /\ UNCHANGED <<faults, propVars, dbMoney>>
  /\ PropOnly

\* SELECT money resolves: the funds check, then UPDATE properties is issued
purchaseCheckMoney ==
  \E i \in InFlight :
    /\ calls[i].op = "purchaseProperty" /\ calls[i].pc = "money"
    /\ calls' = IF dbMoney[calls[i].pl] < Price THEN Return(i, FALSE) ELSE Goto(i, "transfer")
    /\ UNCHANGED <<faults, propVars, dbMoney>>
    /\ PropOnly

\* UPDATE properties SET owner_id, for_sale resolves; the debit is issued
purchaseTransfer ==
  \E i \in InFlight :
    /\ calls[i].op = "purchaseProperty" /\ calls[i].pc = "transfer"
    /\ dbProperties' = PurchaseRow(dbProperties, calls[i].id, calls[i].pl)
    /\ calls' = Goto(i, "deduct")
    /\ UNCHANGED <<faults, properties, propertyKeys, dbPropertyKeys, dbMoney>>
    /\ PropOnly

\* UPDATE characters SET money = money - price resolves; giveKey is entered
\* (its property lookup succeeds: entries are never removed) and issues its SELECT
purchaseDeduct ==
  \E i \in InFlight :
    /\ calls[i].op = "purchaseProperty" /\ calls[i].pc = "deduct"
    /\ dbMoney' = [dbMoney EXCEPT ![calls[i].pl] = @ - Price]
    /\ calls' = Goto(i, "keySelect")
    /\ UNCHANGED <<faults, propVars>>
    /\ PropOnly

----------------------------------------------------------------------------
(* What runs when giveKey returns `keyOk` to call i: the rest of the       *)
(* caller, which for purchase and rent is the memory update and `success`. *)

AfterGiveKeyProps(i) ==
  CASE calls[i].op = "purchaseProperty" -> PurchaseMemory(properties, calls[i].id, calls[i].pl)
    [] calls[i].op = "rentProperty" -> RentRow(properties, calls[i].id, calls[i].pl)
    [] OTHER -> properties

AfterGiveKeyResult(i, keyOk) ==
  IF calls[i].op = "giveKey" THEN keyOk ELSE TRUE

----------------------------------------------------------------------------
(* PropertyManager.giveKey, called directly or from purchase / rent *)

giveKey(id, playerId, keyType) ==
  /\ CanStart
  /\ calls' = StartCall(NewCall("giveKey", id, playerId, keyType,
                                    IF id \in DOMAIN properties THEN "keySelect" ELSE "done",
                                    FALSE))
  /\ UNCHANGED <<faults, propVars, dbMoney>>
  /\ PropOnly

\* SELECT existing key resolves
giveKeySelect ==
  \E i \in InFlight :
    /\ calls[i].op \in PropOps /\ calls[i].pc = "keySelect"
    /\ IF ExistingKey(dbPropertyKeys[calls[i].id], calls[i].pl)
       THEN /\ calls' = Return(i, AfterGiveKeyResult(i, FALSE))
            /\ properties' = AfterGiveKeyProps(i)
       ELSE /\ calls' = Goto(i, "keyInsert")
            /\ UNCHANGED properties
    /\ UNCHANGED <<faults, propertyKeys, dbProperties, dbPropertyKeys, dbMoney>>
    /\ PropOnly

\* INSERT INTO property_keys resolves; the key is pushed to memory
giveKeyInsert ==
  \E i \in InFlight :
    /\ calls[i].op \in PropOps /\ calls[i].pc = "keyInsert"
    /\ LET row == KeyRow(calls[i].pl, KeyTypeOf(calls[i]))
       IN /\ dbPropertyKeys' = [dbPropertyKeys EXCEPT ![calls[i].id] = Append(@, row)]
          /\ propertyKeys' = [propertyKeys EXCEPT ![calls[i].id] = Append(@, row)]
    /\ properties' = AfterGiveKeyProps(i)
    /\ calls' = Return(i, AfterGiveKeyResult(i, TRUE))
    /\ UNCHANGED <<faults, dbProperties, dbMoney>>
    /\ PropOnly

----------------------------------------------------------------------------
(* PropertyManager.sellProperty *)

sellProperty(id, sellerId) ==
  /\ CanStart
  /\ LET go == id \in DOMAIN properties /\ properties[id].owner_id = sellerId
     IN calls' = StartCall(NewCall("sellProperty", id, sellerId, "owner",
                                       IF go THEN "credit" ELSE "done", FALSE))
  /\ UNCHANGED <<faults, propVars, dbMoney>>
  /\ PropOnly

\* UPDATE characters SET money = money + sellPrice resolves
sellCredit ==
  \E i \in InFlight :
    /\ calls[i].op = "sellProperty" /\ calls[i].pc = "credit"
    /\ dbMoney' = [dbMoney EXCEPT ![calls[i].pl] = @ + SellPrice(Price)]
    /\ calls' = Goto(i, "clear")
    /\ UNCHANGED <<faults, propVars>>
    /\ PropOnly

\* UPDATE properties SET owner_id = NULL, for_sale = 1, rented_by = NULL resolves
sellClear ==
  \E i \in InFlight :
    /\ calls[i].op = "sellProperty" /\ calls[i].pc = "clear"
    /\ dbProperties' = SellRow(dbProperties, calls[i].id)
    /\ calls' = Goto(i, "deleteKeys")
    /\ UNCHANGED <<faults, properties, propertyKeys, dbPropertyKeys, dbMoney>>
    /\ PropOnly

\* DELETE FROM property_keys WHERE property_id = ? resolves; memory is updated
sellDeleteKeys ==
  \E i \in InFlight :
    /\ calls[i].op = "sellProperty" /\ calls[i].pc = "deleteKeys"
    /\ dbPropertyKeys' = [dbPropertyKeys EXCEPT ![calls[i].id] = <<>>]
    /\ properties' = SellRow(properties, calls[i].id)
    /\ propertyKeys' = [propertyKeys EXCEPT ![calls[i].id] = <<>>]
    /\ calls' = Return(i, TRUE)
    /\ UNCHANGED <<faults, dbProperties, dbMoney>>
    /\ PropOnly

----------------------------------------------------------------------------
(* PropertyManager.rentProperty *)

rentProperty(id, renterId) ==
  /\ CanStart
  /\ LET go == /\ id \in DOMAIN properties
               /\ properties[id].for_rent /\ RentPrice # 0
               /\ properties[id].rented_by = 0
     IN calls' = StartCall(NewCall("rentProperty", id, renterId, "renter",
                                       IF go THEN "money" ELSE "done", FALSE))
  /\ UNCHANGED <<faults, propVars, dbMoney>>
  /\ PropOnly

rentCheckMoney ==
  \E i \in InFlight :
    /\ calls[i].op = "rentProperty" /\ calls[i].pc = "money"
    /\ calls' = IF dbMoney[calls[i].pl] < RentPrice THEN Return(i, FALSE) ELSE Goto(i, "setRental")
    /\ UNCHANGED <<faults, propVars, dbMoney>>
    /\ PropOnly

\* UPDATE properties SET rented_by = ?, rent_expires = ? resolves
rentSetRental ==
  \E i \in InFlight :
    /\ calls[i].op = "rentProperty" /\ calls[i].pc = "setRental"
    /\ dbProperties' = RentRow(dbProperties, calls[i].id, calls[i].pl)
    /\ calls' = Goto(i, "deduct")
    /\ UNCHANGED <<faults, properties, propertyKeys, dbPropertyKeys, dbMoney>>
    /\ PropOnly

rentDeduct ==
  \E i \in InFlight :
    /\ calls[i].op = "rentProperty" /\ calls[i].pc = "deduct"
    /\ dbMoney' = [dbMoney EXCEPT ![calls[i].pl] = @ - RentPrice]
    /\ calls' = Goto(i, "keySelect")
    /\ UNCHANGED <<faults, propVars>>
    /\ PropOnly

----------------------------------------------------------------------------
(* PropertyManager.removeKey: no lookup of the property, the DELETE is the *)
(* first statement.                                                        *)

removeKey(id, playerId) ==
  /\ CanStart
  /\ calls' = StartCall(NewCall("removeKey", id, playerId, "spare", "delete", FALSE))
  /\ UNCHANGED <<faults, propVars, dbMoney>>
  /\ PropOnly

\* DELETE ... AND key_type != "owner" resolves; affectedRows decides
removeKeyDelete ==
  \E i \in InFlight :
    /\ calls[i].op = "removeKey" /\ calls[i].pc = "delete"
    /\ LET id == calls[i].id
           before == IF id \in DOMAIN dbPropertyKeys THEN dbPropertyKeys[id] ELSE <<>>
           after == RemoveKeyRows(before, calls[i].pl)
       IN IF Len(after) = Len(before)
          THEN /\ calls' = Return(i, FALSE)
               /\ UNCHANGED <<propertyKeys, dbPropertyKeys>>
          ELSE /\ dbPropertyKeys' = [dbPropertyKeys EXCEPT ![id] = after]
               /\ propertyKeys' = [propertyKeys EXCEPT ![id] = RemoveKeyRows(@, calls[i].pl)]
               /\ calls' = Return(i, TRUE)
    /\ UNCHANGED <<faults, properties, dbProperties, dbMoney>>
    /\ PropOnly

----------------------------------------------------------------------------
(* A pending store query rejects (Database.query rethrows).  Inside        *)
(* giveKey the catch block of giveKey turns it into a failure result and   *)
(* the caller goes on; elsewhere the operation's own catch block returns   *)
(* failure.                                                                *)

storeError ==
  \E i \in InFlight :
    /\ calls[i].op \in PropOps
    /\ faults > 0
    /\ faults' = faults - 1
    /\ IF calls[i].pc \in {"keySelect", "keyInsert"}
       THEN /\ calls' = [Return(i, AfterGiveKeyResult(i, FALSE)) EXCEPT ![i].err = TRUE]
            /\ properties' = AfterGiveKeyProps(i)
       ELSE /\ calls' = [Return(i, FALSE) EXCEPT ![i].err = TRUE]
            /\ UNCHANGED properties
    /\ UNCHANGED <<propertyKeys, dbProperties, dbPropertyKeys, dbMoney>>
    /\ PropOnly

----------------------------------------------------------------------------
(* VehicleManager.giveKey and removeKey.  vehicle_keys carries              *)
(* UNIQUE KEY unique_vehicle_player (vehicle_id, player_id): an INSERT of a *)
(* second row for the pair is rejected by the store and lands in the catch  *)
(* block.                                                                   *)

hasVehicleKey(id, playerId) ==
  id \in DOMAIN vehicleKeys /\ ExistingKey(vehicleKeys[id], playerId)

vehicleGiveKey(id, playerId, keyType) ==
  /\ CanStart
  /\ calls' = StartCall(NewCall("vehicle.giveKey", id, playerId, keyType,
                                IF id \in DOMAIN vehicles THEN "keySelect" ELSE "done",
                                FALSE))
  /\ UNCHANGED <<faults, vehVars>>
  /\ VehOnly

\* SELECT existing key resolves
vehicleGiveKeySelect ==
  \E i \in InFlight :
    /\ calls[i].op = "vehicle.giveKey" /\ calls[i].pc = "keySelect"
    /\ calls' = IF ExistingKey(dbVehicleKeys[calls[i].id], calls[i].pl)
                THEN Return(i, FALSE)
                ELSE Goto(i, "keyInsert")
    /\ UNCHANGED <<faults, vehVars>>
    /\ VehOnly

\* INSERT INTO vehicle_keys resolves, or is rejected as a duplicate
vehicleGiveKeyInsert ==
  \E i \in InFlight :
    /\ calls[i].op = "vehicle.giveKey" /\ calls[i].pc = "keyInsert"
    /\ LET row == KeyRow(calls[i].pl, calls[i].kt)
       IN IF ExistingKey(dbVehicleKeys[calls[i].id], calls[i].pl)
          THEN /\ calls' = Return(i, FALSE)
               /\ UNCHANGED <<vehicleKeys, dbVehicleKeys>>
          ELSE /\ dbVehicleKeys' = [dbVehicleKeys EXCEPT ![calls[i].id] = Append(@, row)]
               /\ vehicleKeys' = [vehicleKeys EXCEPT ![calls[i].id] = Append(@, row)]
               /\ calls' = Return(i, TRUE)
    /\ UNCHANGED <<faults, vehicles>>
    /\ VehOnly

vehicleRemoveKey(id, playerId) ==
  /\ CanStart
  /\ calls' = StartCall(NewCall("vehicle.removeKey", id, playerId, "spare", "delete", FALSE))
  /\ UNCHANGED <<faults, vehVars>>
  /\ VehOnly

\* DELETE ... AND key_type != "owner" resolves; affectedRows decides
vehicleRemoveKeyDelete ==
  \E i \in InFlight :
    /\ calls[i].op = "vehicle.removeKey" /\ calls[i].pc = "delete"
    /\ LET id == calls[i].id
           after == RemoveKeyRows(dbVehicleKeys[id], calls[i].pl)
       IN IF Len(after) = Len(dbVehicleKeys[id])
          THEN /\ calls' = Return(i, FALSE)
               /\ UNCHANGED <<vehicleKeys, dbVehicleKeys>>
          ELSE /\ dbVehicleKeys' = [dbVehicleKeys EXCEPT ![id] = after]
               /\ vehicleKeys' = [vehicleKeys EXCEPT ![id] = RemoveKeyRows(@, calls[i].pl)]
               /\ calls' = Return(i, TRUE)
    /\ UNCHANGED <<faults, vehicles>>
    /\ VehOnly

\* a pending query of a VehicleManager call rejects: its catch block returns failure
vehicleStoreError ==
  \E i \in InFlight :
    /\ calls[i].op \in VehOps
    /\ faults > 0
    /\ faults' = faults - 1
    /\ calls' = [Return(i, FALSE) EXCEPT ![i].err = TRUE]
    /\ UNCHANGED vehVars
    /\ VehOnly

----------------------------------------------------------------------------
(* VehicleManager: purchase, sale, impound, and the engine command of       *)
(* VehicleCommands (src/server/commands/vehicle.ts).  A row of the vehicles *)
(* table is [owner_id, impounded, deleted]; a Vehicle in memory carries     *)
(* owner_id, impounded and fuel.                                            *)

FleetIds == 1..MaxVehicles

FleetOps == {"purchaseVehicle", "sellVehicle", "impoundVehicle", "unimpoundVehicle"}

\* what a step of these operations leaves alone
FleetOnly == UNCHANGED <<propVars, admVars, now, facVars, ecoVars, busVars>>

\* result.insertId of INSERT INTO vehicles: the next AUTO_INCREMENT value
InsertId == Cardinality(DOMAIN dbVehicles) + 1

\* Math.floor(vehicleInfo.price * 0.5)
VehicleSellPrice == (VehiclePrice * 5) \div 10

\* m with the entry of key k removed
WithoutVehicle(m, k) == [x \in DOMAIN m \ {k} |-> m[x]]

purchaseVehicle(playerId, offered) ==
  /\ CanStart
  /\ InsertId + Cardinality({k \in InFlight : calls[k].op = "purchaseVehicle" /\ calls[k].id = 0})
       \in FleetIds
  /\ calls' = StartCall(NewCall("purchaseVehicle", 0, playerId, "owner",
                                IF offered THEN "select" ELSE "done", FALSE))
  /\ UNCHANGED <<faults, dbMoney, vehVars, fleetVars>>
  /\ FleetOnly

\* SELECT money resolves: "Check player money"
purchaseVehicleSelect ==
  \E i \in InFlight :
    /\ calls[i].op = "purchaseVehicle" /\ calls[i].pc = "select"
    /\ calls' = IF dbMoney[calls[i].pl] < VehiclePrice THEN Return(i, FALSE)
                ELSE Goto(i, "insert")
    /\ UNCHANGED <<faults, dbMoney, vehVars, fleetVars>>
    /\ FleetOnly

\* INSERT INTO vehicles resolves: vehicleId = result.insertId
purchaseVehicleInsert ==
  \E i \in InFlight :
    /\ calls[i].op = "purchaseVehicle" /\ calls[i].pc = "insert"
    /\ dbVehicles' = [id \in DOMAIN dbVehicles \cup {InsertId} |->
                        IF id = InsertId
                        THEN [owner_id |-> calls[i].pl, impounded |-> FALSE, deleted |-> FALSE]
                        ELSE dbVehicles[id]]
    /\ calls' = [Goto(i, "deduct") EXCEPT ![i].id = InsertId]
    /\ UNCHANGED <<faults, dbMoney, vehVars, engine>>
    /\ FleetOnly

\* "Deduct money" resolves; then `await this.giveKey(vehicleId, playerId,
\* "owner")`, whose result is not looked at, "Add to memory" and the return.
\* giveKey begins with this.vehicles.get(vehicleId): the vehicle enters the
\* map only after giveKey has answered, and vehicleId is a fresh insertId,
\* so giveKey answers "Vehículo no encontrado" before any query.
purchaseVehicleDeduct ==
  \E i \in InFlight :
    /\ calls[i].op = "purchaseVehicle" /\ calls[i].pc = "deduct"
    /\ calls[i].id \notin DOMAIN vehicles
    /\ dbMoney' = [dbMoney EXCEPT ![calls[i].pl] = @ - VehiclePrice]
    /\ vehicles' = [id \in DOMAIN vehicles \cup {calls[i].id} |->
                      IF id = calls[i].id
                      THEN [owner_id |-> calls[i].pl, impounded |-> FALSE, fuel |-> 100]
                      ELSE vehicles[id]]
    /\ calls' = Return(i, TRUE)
    /\ UNCHANGED <<faults, vehicleKeys, dbVehicleKeys, fleetVars>>
    /\ FleetOnly

sellVehicle(vehicleId, sellerId) ==
  /\ CanStart
  /\ calls' = StartCall(NewCall("sellVehicle", vehicleId, sellerId, "owner",
                                IF /\ vehicleId \in DOMAIN vehicles
                                   /\ vehicles[vehicleId].owner_id = sellerId
                                   /\ ~vehicles[vehicleId].impounded
                                THEN "credit" ELSE "done", FALSE))
  /\ UNCHANGED <<faults, dbMoney, vehVars, fleetVars>>
  /\ FleetOnly

\* "Add money to player" resolves
sellVehicleCredit ==
  \E i \in InFlight :
    /\ calls[i].op = "sellVehicle" /\ calls[i].pc = "credit"
    /\ dbMoney' = [dbMoney EXCEPT ![calls[i].pl] = @ + VehicleSellPrice]
    /\ calls' = Goto(i, "deleteKeys")
    /\ UNCHANGED <<faults, vehVars, fleetVars>>
    /\ FleetOnly

\* DELETE FROM vehicle_keys WHERE vehicle_id resolves
sellVehicleDeleteKeys ==
  \E i \in InFlight :
    /\ calls[i].op = "sellVehicle" /\ calls[i].pc = "deleteKeys"
    /\ dbVehicleKeys' = [dbVehicleKeys EXCEPT ![calls[i].id] = <<>>]
    /\ calls' = Goto(i, "markDeleted")
    /\ UNCHANGED <<faults, dbMoney, vehicles, vehicleKeys, fleetVars>>
    /\ FleetOnly

\* UPDATE vehicles SET deleted_at resolves; "Remove from memory"
sellVehicleMarkDeleted ==
  \E i \in InFlight :
    /\ calls[i].op = "sellVehicle" /\ calls[i].pc = "markDeleted"
    /\ dbVehicles' = [dbVehicles EXCEPT ![calls[i].id].deleted = TRUE]
    /\ vehicles' = WithoutVehicle(vehicles, calls[i].id)
    /\ vehicleKeys' = [vehicleKeys EXCEPT ![calls[i].id] = <<>>]
    /\ calls' = Return(i, TRUE)
    /\ UNCHANGED <<faults, dbMoney, dbVehicleKeys, engine>>
    /\ FleetOnly

\* impoundVehicle up to its first UPDATE: the flag is set in memory first
impoundVehicle(vehicleId, impounderId) ==
  /\ CanStart
  /\ LET goes == vehicleId \in DOMAIN vehicles /\ ~vehicles[vehicleId].impounded
     IN /\ calls' = StartCall(NewCall("impoundVehicle", vehicleId, impounderId, "owner",
                                      IF goes THEN "update" ELSE "done", FALSE))
        /\ vehicles' = IF goes THEN [vehicles EXCEPT ![vehicleId].impounded = TRUE]
                       ELSE vehicles
  /\ UNCHANGED <<faults, dbMoney, vehicleKeys, dbVehicleKeys, fleetVars>>
  /\ FleetOnly

\* UPDATE vehicles SET impounded = true resolves
impoundVehicleUpdate ==
  \E i \in InFlight :
    /\ calls[i].op = "impoundVehicle" /\ calls[i].pc = "update"
    /\ dbVehicles' = [dbVehicles EXCEPT ![calls[i].id].impounded = TRUE]
    /\ calls' = Goto(i, "log")
    /\ UNCHANGED <<faults, dbMoney, vehVars, engine>>
    /\ FleetOnly

\* INSERT INTO vehicle_impounds resolves
impoundVehicleLog ==
  \E i \in InFlight :
    /\ calls[i].op = "impoundVehicle" /\ calls[i].pc = "log"
    /\ calls' = Return(i, TRUE)
    /\ UNCHANGED <<faults, dbMoney, vehVars, fleetVars>>
    /\ FleetOnly

unimpoundVehicle(vehicleId, payerId) ==
  /\ CanStart
  /\ calls' = StartCall(NewCall("unimpoundVehicle", vehicleId, payerId, "owner",
                                IF vehicleId \in DOMAIN vehicles /\ vehicles[vehicleId].impounded
                                THEN "select" ELSE "done", FALSE))
  /\ UNCHANGED <<faults, dbMoney, vehVars, fleetVars>>
  /\ FleetOnly

\* SELECT money resolves; with enough money the flag is cleared in memory,
\* on the Vehicle object the call fetched when it began
unimpoundVehicleSelect ==
  \E i \in InFlight :
    /\ calls[i].op = "unimpoundVehicle" /\ calls[i].pc = "select"
    /\ IF dbMoney[calls[i].pl] < ImpoundCost
       THEN /\ calls' = Return(i, FALSE)
            /\ UNCHANGED vehicles
       ELSE /\ calls' = Goto(i, "update")
            /\ vehicles' = IF calls[i].id \in DOMAIN vehicles
                           THEN [vehicles EXCEPT ![calls[i].id].impounded = FALSE]
                           ELSE vehicles
    /\ UNCHANGED <<faults, dbMoney, vehicleKeys, dbVehicleKeys, fleetVars>>
    /\ FleetOnly

\* UPDATE vehicles SET impounded = false resolves
unimpoundVehicleUpdate ==
  \E i \in InFlight :
    /\ calls[i].op = "unimpoundVehicle" /\ calls[i].pc = "update"
    /\ dbVehicles' = [dbVehicles EXCEPT ![calls[i].id].impounded = FALSE]
    /\ calls' = Goto(i, "deduct")
    /\ UNCHANGED <<faults, dbMoney, vehVars, engine>>
    /\ FleetOnly

\* UPDATE characters SET money = money - impoundCost resolves
unimpoundVehicleDeduct ==
  \E i \in InFlight :
    /\ calls[i].op = "unimpoundVehicle" /\ calls[i].pc = "deduct"
    /\ dbMoney' = [dbMoney EXCEPT ![calls[i].pl] = @ - ImpoundCost]
    /\ calls' = Return(i, TRUE)
    /\ UNCHANGED <<faults, vehVars, fleetVars>>
    /\ FleetOnly

\* VehicleCommands.handleEngine, for a player sitting in the vehicle: it has
\* no await, so the command is one step
handleEngine(playerId, vehicleId) ==
  /\ CanStart
  /\ LET toggles == /\ hasVehicleKey(vehicleId, playerId)
                    /\ vehicleId \in DOMAIN vehicles
                    /\ ~(vehicles[vehicleId].fuel <= 0)
     IN /\ calls' = StartCall(NewCall("handleEngine", vehicleId, playerId, "owner",
                                      "done", toggles))
        /\ engine' = IF toggles THEN [engine EXCEPT ![vehicleId] = ~@] ELSE engine
  /\ UNCHANGED <<faults, dbMoney, vehVars, dbVehicles>>
  /\ FleetOnly

\* a pending query of one of these calls rejects: its catch block returns failure
fleetStoreError ==
  \E i \in InFlight :
    /\ calls[i].op \in FleetOps
    /\ faults > 0
    /\ faults' = faults - 1
    /\ calls' = [Return(i, FALSE) EXCEPT ![i].err = TRUE]
    /\ UNCHANGED <<dbMoney, vehVars, fleetVars>>
    /\ FleetOnly

----------------------------------------------------------------------------
(* AdminManager.  The grant map and the report index are maps from an id   *)
(* to a record; a permission array is modelled as the set of its elements  *)
(* (the code only asks `includes`).  Free-text arguments (reason,          *)
(* description, resolution) are not modelled.                              *)

EmptyMap == [x \in {} |-> 0]

\* Map.set
MapSet(m, k, v) == [x \in DOMAIN m \cup {k} |-> IF x = k THEN v ELSE m[x]]

\* Map.delete
MapDelete(m, k) == [x \in DOMAIN m \ {k} |-> m[x]]

\* Array.slice(0, n): the first n entries
FirstN(s, n) == IF Len(s) > n THEN SubSeq(s, 1, n) ELSE s

\* Array.slice(-n)
LastN(s, n) == IF Len(s) > n THEN SubSeq(s, Len(s) - n + 1, Len(s)) ELSE s

\* loadAdminLevels: SELECT ... FROM admin_levels WHERE active = 1
loadAdminLevels(rows) ==
  [p \in {q \in DOMAIN rows : rows[q].active} |->
     [level |-> rows[p].level, permissions |-> rows[p].permissions]]

\* loadActiveReports: SELECT ... FROM player_reports r ... WHERE r.status = 'open'
loadActiveReports(rows) ==
  [id \in {k \in 1..Len(rows) : rows[k].status = "open"} |->
     [reporter_id |-> rows[id].reporter_id, reported_id |-> rows[id].reported_id,
      status |-> rows[id].status, assigned_admin |-> rows[id].assigned_admin]]

getAdminLevel(playerId) ==
  IF playerId \in DOMAIN adminLevels THEN adminLevels[playerId].level ELSE 0

hasPermission(playerId, permission) ==
  /\ playerId \in DOMAIN adminLevels
  /\ \/ permission \in adminLevels[playerId].permissions
     \/ "*" \in adminLevels[playerId].permissions

getDefaultPermissions(level) ==
  (IF level >= 1 THEN {"kick", "warn", "handle_reports"} ELSE {})
    \cup (IF level >= 2 THEN {"mute", "unmute"} ELSE {})
    \cup (IF level >= 3 THEN {"ban", "unban"} ELSE {})
    \cup (IF level >= 4 THEN {"teleport", "spectate"} ELSE {})
    \cup (IF level >= 5 THEN {"set_admin_level"} ELSE {})
    \cup (IF level >= 10 THEN {"*"} ELSE {})

\* every permission string the code checks or hands out
Capabilities ==
  {"kick", "warn", "handle_reports", "mute", "unmute", "ban", "unban", "teleport",
   "spectate", "set_admin_level", "close_any_report", "*"}

\* a memory update that never removes the entry
SetAdminMemoryAlways(levels, playerId, level, permissions) ==
  MapSet(levels, playerId, [level |-> level, permissions |-> permissions])

\* setAdminLevel: "Update memory"
SetAdminMemory(levels, playerId, level, permissions) ==
  IF level > 0
  THEN MapSet(levels, playerId, [level |-> level, permissions |-> permissions])
  ELSE MapDelete(levels, playerId)

\* setAdminLevel: INSERT ... ON DUPLICATE KEY UPDATE level, permissions,
\* set_by, updated_at.  A new row takes the column default active = TRUE; an
\* existing row keeps its `active`.
UpsertAdminRow(rows, playerId, level, permissions) ==
  MapSet(rows, playerId,
         [level |-> level, permissions |-> permissions,
          active |-> IF playerId \in DOMAIN rows THEN rows[playerId].active ELSE TRUE])

\* an UPDATE that changes no row
DeactivateNothing(rows, targetId) == rows

\* UPDATE player_bans / player_mutes SET active = 0 ... WHERE player_id = ? AND active = 1
Deactivate(rows, targetId) ==
  [k \in 1..Len(rows) |->
     IF rows[k].player_id = targetId /\ rows[k].active
     THEN [rows[k] EXCEPT !.active = FALSE] ELSE rows[k]]

\* its affectedRows
ActiveRows(rows, targetId) ==
  {k \in 1..Len(rows) : rows[k].player_id = targetId /\ rows[k].active}

\* a lookup that finds nothing
ExistingReportNever(reports, reporterId) == FALSE

\* createReport: the reporter's open report in the active index, if any
ExistingReport(reports, reporterId) ==
  \E id \in DOMAIN reports :
    reports[id].reporter_id = reporterId /\ reports[id].status = "open"

\* The record of an AdminManager call.  adminId is the acting character
\* (adminId, reporterId or setBy), targetId the character or report acted on.
\* `level` is the level argument of setAdminLevel and the duration argument
\* of banPlayer, `expires` the expiresAt that banPlayer and mutePlayer
\* compute before their INSERT (0 is null).  Ghost fields: l0 says getAdminLevel(adminId) was 0 when the
\* call started, had that targetId had an entry in the grant map then; for
\* closeReport, found / asg / cap say whether the report was in the active
\* index, who was assigned to it and whether adminId held close_any_report;
\* for createReport, open0 says the reporter had a report of status open in
\* the active index;
\* w that the call executed an INSERT or UPDATE of its own, lg that it
\* appended an audit entry, ev that it emitted an event; for banPlayer,
\* lifted says an unbanPlayer UPDATE has since deactivated the inserted ban.
NewAdminCall(op, adminId, targetId, level, permissions, pc) ==
  [op |-> op, adminId |-> adminId, targetId |-> targetId, level |-> level,
   permissions |-> permissions, rid |-> 0, reporter |-> 0, pc |-> pc, ok |-> FALSE,
   err |-> FALSE, n |-> NextN, during |-> {calls[k].n : k \in InFlight},
   l0 |-> getAdminLevel(adminId) = 0, had |-> targetId \in DOMAIN adminLevels,
   expires |-> 0, found |-> FALSE, asg |-> 0, cap |-> FALSE, open0 |-> FALSE,
   w |-> FALSE, lg |-> FALSE, ev |-> FALSE, lifted |-> FALSE, via |-> ""]

\* the bound on the calls a behaviour starts, by kind of operation
CanStartAdmin(op) ==
  NextN <= (IF op = "setAdminLevel" THEN MaxGrantCalls
            ELSE IF op \in {"createReport", "acceptReport", "closeReport"}
                 THEN MaxReportCalls
                 ELSE MaxModCalls)

\* the outcomes of the audit INSERT: it may fail while failures are left
LogOutcomes == IF faults > 0 THEN {FALSE, TRUE} ELSE {FALSE}

\* logAdminAction: INSERT INTO admin_logs, push, keep the last 100.  Its own
\* catch block swallows a failed INSERT.
logAdminAction(failed, adminId, action, targetId) ==
  LET entry == [admin_id |-> adminId, action |-> action, target_id |-> targetId]
  IN /\ dbLogs' = IF failed THEN dbLogs ELSE Append(dbLogs, entry)
     /\ adminActions' = IF failed THEN adminActions
                        ELSE LastN(Append(adminActions, entry), AuditCap)
     /\ faults' = IF failed THEN faults - 1 ELSE faults

\* logAdminAction called on its own, with no other call in flight: the
\* INSERT resolves or rejects, then the push and the trim
logAdminActionCall(adminId, action, targetId) ==
  /\ CanStartAdmin("logAdminAction")
  /\ InFlight = {}
  /\ \E failed \in LogOutcomes :
       /\ logAdminAction(failed, adminId, action, targetId)
       /\ calls' = StartCall([NewAdminCall("logAdminAction", adminId, targetId, 0, {}, "done")
                               EXCEPT !.lg = ~failed])
  /\ UNCHANGED <<grantVars, modVars, reportVars, emitted>>
  /\ AdmOnly

\* a permission-checked operation starts: the check is synchronous
StartChecked(op, adminId, targetId, level, permission, pc) ==
  /\ calls' = StartCall(NewAdminCall(op, adminId, targetId, level, {},
                                     IF hasPermission(adminId, permission) THEN pc ELSE "done"))
  /\ UNCHANGED <<faults, admVars>>
  /\ AdmOnly

\* a tail in which a failed audit INSERT reaches the operation's catch block
LogAndReturnPropagates(i, action, events) ==
  \E failed \in LogOutcomes :
    /\ logAdminAction(failed, calls[i].adminId, action, calls[i].targetId)
    /\ emitted' = IF failed THEN emitted ELSE emitted \o events
    /\ calls' = IF failed THEN [Return(i, FALSE) EXCEPT ![i].err = TRUE]
                ELSE [Return(i, TRUE) EXCEPT ![i].lg = TRUE, ![i].ev = (events # <<>>)]

\* the tail of an operation: `await this.logAdminAction(...)`, the emit if
\* the operation has one, and `return { success: true }`
LogAndReturn(i, action, events) ==
  \E failed \in LogOutcomes :
    /\ logAdminAction(failed, calls[i].adminId, action, calls[i].targetId)
    /\ emitted' = emitted \o events
    /\ calls' = [Return(i, TRUE) EXCEPT ![i].lg = ~failed, ![i].ev = (events # <<>>)]

----------------------------------------------------------------------------
(* AdminManager.setAdminLevel *)

setAdminLevel(playerId, level, permissions, setBy) ==
  /\ CanStartAdmin("setAdminLevel")
  /\ calls' = StartCall(NewAdminCall("setAdminLevel", setBy, playerId, level, permissions,
                                     IF level < 0 \/ level > 10 THEN "done" ELSE "upsert"))
  /\ UNCHANGED <<faults, admVars>>
  /\ AdmOnly

\* the store executes the upsert.  Database.query runs each statement on a
\* connection of a pool of ten (part_001), so the answers of two pending
\* statements may come back in either order: the write and the resumption of
\* the caller are separate steps.
setAdminLevelUpsert ==
  \E i \in InFlight :
    /\ calls[i].op = "setAdminLevel" /\ calls[i].pc = "upsert"
    /\ dbAdminLevels' = UpsertAdminRow(dbAdminLevels, calls[i].targetId, calls[i].level,
                                       calls[i].permissions)
    /\ calls' = [Goto(i, "resume") EXCEPT ![i].w = TRUE]
    /\ UNCHANGED <<faults, adminLevels, modVars, reportVars, logVars>>
    /\ AdmOnly

\* the caller resumes from the upsert: "Update memory", up to the await of
\* logAdminAction
setAdminLevelResume ==
  \E i \in InFlight :
    /\ calls[i].op = "setAdminLevel" /\ calls[i].pc = "resume"
    /\ adminLevels' = SetAdminMemory(adminLevels, calls[i].targetId, calls[i].level,
                                     calls[i].permissions)
    /\ calls' = Goto(i, "log")
    /\ UNCHANGED <<faults, dbAdminLevels, modVars, reportVars, logVars>>
    /\ AdmOnly

setAdminLevelLog ==
  \E i \in InFlight :
    /\ calls[i].op = "setAdminLevel" /\ calls[i].pc = "log"
    /\ LogAndReturn(i, "SET_ADMIN_LEVEL", <<>>)
    /\ UNCHANGED <<grantVars, modVars, reportVars>>
    /\ AdmOnly

----------------------------------------------------------------------------
(* The setadmin command.  It has two entry points: AdminCommands            *)
(* (src/server/commands/admin.ts), bound to the playerCommand event, and    *)
(* AdminManager.handleCommand.  `via` names the entry point on the call     *)
(* record and `cap` says whether the issuer held the capability for setting *)
(* admin levels, under either of the names the two permission tables give   *)
(* it, when the command arrived.                                            *)

\* AdminCommands.getPermissionsByLevel
getPermissionsByLevel(level) ==
  (IF level >= 1 THEN {"kick", "mute", "unmute", "warn", "handle_reports", "spectate"} ELSE {})
    \cup (IF level >= 2 THEN {"ban", "unban", "teleport", "invisible"} ELSE {})
    \cup (IF level >= 3 THEN {"noclip", "announce", "freeze"} ELSE {})
    \cup (IF level >= 4 THEN {"vehicle_admin", "property_admin"} ELSE {})
    \cup (IF level >= 5 THEN {"faction_admin", "job_admin"} ELSE {})
    \cup (IF level >= 6 THEN {"economy_admin"} ELSE {})
    \cup (IF level >= 7 THEN {"server_admin"} ELSE {})
    \cup (IF level >= 8 THEN {"senior_admin"} ELSE {})
    \cup (IF level >= 9 THEN {"set_admin", "close_any_report"} ELSE {})
    \cup (IF level >= 10 THEN {"*"} ELSE {})

\* the record of a setadmin command: a setAdminLevel call when the entry
\* point let it through, a finished "setadmin" record when it answered itself
SetAdminCommand(via, through, adminId, targetId, level, permissions) ==
  LET c == IF through
           THEN NewAdminCall("setAdminLevel", adminId, targetId, level, permissions,
                             IF level < 0 \/ level > 10 THEN "done" ELSE "upsert")
           ELSE NewAdminCall("setadmin", adminId, targetId, level, {}, "done")
  IN [c EXCEPT !.via = via,
               !.cap = hasPermission(adminId, "set_admin_level")
                         \/ hasPermission(adminId, "set_admin")]

\* AdminCommands.handleCommand, case "/setadmin", and handleSetAdmin
handleSetAdmin(adminId, targetId, level) ==
  /\ CanStartAdmin("setAdminLevel")
  /\ calls' = StartCall(SetAdminCommand("AdminCommands",
                                         getAdminLevel(adminId) >= 9 /\ level >= 0 /\ level <= 10,
                                         adminId, targetId, level,
                                         getPermissionsByLevel(level)))
  /\ UNCHANGED <<faults, admVars>>
  /\ AdmOnly

\* AdminManager.handleCommand, case "setadmin"
handleCommand(adminId, targetId, level) ==
  /\ CanStartAdmin("setAdminLevel")
  /\ calls' = StartCall(SetAdminCommand("AdminManager", getAdminLevel(adminId) # 0,
                                         adminId, targetId, level,
                                         getDefaultPermissions(level)))
  /\ UNCHANGED <<faults, admVars>>
  /\ AdmOnly

----------------------------------------------------------------------------
(* AdminManager: kick, ban, unban, mute, unmute, warn *)

kickPlayer(targetId, adminId) ==
  /\ CanStartAdmin("kickPlayer")
  /\ StartChecked("kickPlayer", adminId, targetId, 0, "kick", "log")

kickPlayerLog ==
  \E i \in InFlight :
    /\ calls[i].op = "kickPlayer" /\ calls[i].pc = "log"
    /\ LogAndReturn(i, "KICK", <<[name |-> "player:kick", playerId |-> calls[i].targetId]>>)
    /\ UNCHANGED <<grantVars, modVars, reportVars>>
    /\ AdmOnly

\* an expiry computed for every duration
ExpiresAtAlways(duration) == now + duration

\* banPlayer: `duration > 0 ? new Date(Date.now() + duration * ...) : null`;
\* 0 is null, the clock counts in units of the duration
ExpiresAt(duration) == IF duration > 0 THEN now + duration ELSE 0

\* duration 0 is a permanent ban: expires_at NULL
banPlayer(targetId, adminId, duration) ==
  /\ CanStartAdmin("banPlayer")
  /\ calls' = StartCall([NewAdminCall("banPlayer", adminId, targetId, duration, {},
                                      IF hasPermission(adminId, "ban") THEN "insert" ELSE "done")
                         EXCEPT !.expires = ExpiresAt(duration)])
  /\ UNCHANGED <<faults, admVars>>
  /\ AdmOnly

\* an INSERT INTO player_bans that resolves without having stored the row
banPlayerInsertLost ==
  \E i \in InFlight :
    /\ calls[i].op = "banPlayer" /\ calls[i].pc = "insert"
    /\ calls' = [Goto(i, "log") EXCEPT ![i].w = TRUE]
    /\ UNCHANGED <<faults, grantVars, modVars, reportVars, logVars>>
    /\ AdmOnly

\* INSERT INTO player_bans: nothing looks for an active ban of the target
banPlayerInsert ==
  \E i \in InFlight :
    /\ calls[i].op = "banPlayer" /\ calls[i].pc = "insert"
    /\ dbBans' = Append(dbBans, [player_id |-> calls[i].targetId,
                                  banned_by |-> calls[i].adminId,
                                  expires_at |-> calls[i].expires, active |-> TRUE])
    /\ calls' = [Goto(i, "log") EXCEPT ![i].w = TRUE]
    /\ UNCHANGED <<faults, grantVars, dbMutes, dbWarnings, reportVars, logVars>>
    /\ AdmOnly

banPlayerLog ==
  \E i \in InFlight :
    /\ calls[i].op = "banPlayer" /\ calls[i].pc = "log"
    /\ LogAndReturn(i, "BAN", <<[name |-> "player:kick", playerId |-> calls[i].targetId]>>)
    /\ UNCHANGED <<grantVars, modVars, reportVars>>
    /\ AdmOnly

unbanPlayer(targetId, adminId) ==
  /\ CanStartAdmin("unbanPlayer")
  /\ StartChecked("unbanPlayer", adminId, targetId, 0, "unban", "update")

\* the UPDATE resolves; affectedRows = 0 is "not banned"
unbanPlayerUpdate ==
  \E i \in InFlight :
    /\ calls[i].op = "unbanPlayer" /\ calls[i].pc = "update"
    /\ dbBans' = Deactivate(dbBans, calls[i].targetId)
    /\ calls' = IF ActiveRows(dbBans, calls[i].targetId) = {}
                THEN [Return(i, FALSE) EXCEPT ![i].w = TRUE]
                ELSE [k \in 1..Len(calls) |->
                        IF k = i THEN [calls[i] EXCEPT !.pc = "log", !.w = TRUE]
                        ELSE IF /\ calls[k].op = "banPlayer" /\ calls[k].w
                                /\ calls[k].targetId = calls[i].targetId
                             THEN [calls[k] EXCEPT !.lifted = TRUE]
                             ELSE calls[k]]
    /\ UNCHANGED <<faults, grantVars, dbMutes, dbWarnings, reportVars, logVars>>
    /\ AdmOnly

unbanPlayerLog ==
  \E i \in InFlight :
    /\ calls[i].op = "unbanPlayer" /\ calls[i].pc = "log"
    /\ LogAndReturn(i, "UNBAN", <<>>)
    /\ UNCHANGED <<grantVars, modVars, reportVars>>
    /\ AdmOnly

\* the duration of a mute is in minutes: expires_at is never NULL
mutePlayer(targetId, adminId) ==
  /\ CanStartAdmin("mutePlayer")
  /\ calls' = StartCall([NewAdminCall("mutePlayer", adminId, targetId, 1, {},
                                      IF hasPermission(adminId, "mute") THEN "insert" ELSE "done")
                         EXCEPT !.expires = now + 1])
  /\ UNCHANGED <<faults, admVars>>
  /\ AdmOnly

mutePlayerInsert ==
  \E i \in InFlight :
    /\ calls[i].op = "mutePlayer" /\ calls[i].pc = "insert"
    /\ dbMutes' = Append(dbMutes, [player_id |-> calls[i].targetId,
                                    muted_by |-> calls[i].adminId,
                                    expires_at |-> calls[i].expires, active |-> TRUE])
    /\ calls' = [Goto(i, "log") EXCEPT ![i].w = TRUE]
    /\ UNCHANGED <<faults, grantVars, dbBans, dbWarnings, reportVars, logVars>>
    /\ AdmOnly

mutePlayerLog ==
  \E i \in InFlight :
    /\ calls[i].op = "mutePlayer" /\ calls[i].pc = "log"
    /\ LogAndReturn(i, "MUTE", <<>>)
    /\ UNCHANGED <<grantVars, modVars, reportVars>>
    /\ AdmOnly

unmutePlayer(targetId, adminId) ==
  /\ CanStartAdmin("unmutePlayer")
  /\ StartChecked("unmutePlayer", adminId, targetId, 0, "unmute", "update")

unmutePlayerUpdate ==
  \E i \in InFlight :
    /\ calls[i].op = "unmutePlayer" /\ calls[i].pc = "update"
    /\ dbMutes' = Deactivate(dbMutes, calls[i].targetId)
    /\ calls' = IF ActiveRows(dbMutes, calls[i].targetId) = {}
                THEN [Return(i, FALSE) EXCEPT ![i].w = TRUE]
                ELSE [Goto(i, "log") EXCEPT ![i].w = TRUE]
    /\ UNCHANGED <<faults, grantVars, dbBans, dbWarnings, reportVars, logVars>>
    /\ AdmOnly

unmutePlayerLog ==
  \E i \in InFlight :
    /\ calls[i].op = "unmutePlayer" /\ calls[i].pc = "log"
    /\ LogAndReturn(i, "UNMUTE", <<>>)
    /\ UNCHANGED <<grantVars, modVars, reportVars>>
    /\ AdmOnly

warnPlayer(targetId, adminId) ==
  /\ CanStartAdmin("warnPlayer")
  /\ StartChecked("warnPlayer", adminId, targetId, 0, "warn", "insert")

warnPlayerInsert ==
  \E i \in InFlight :
    /\ calls[i].op = "warnPlayer" /\ calls[i].pc = "insert"
    /\ dbWarnings' = Append(dbWarnings, [player_id |-> calls[i].targetId,
                                          warned_by |-> calls[i].adminId])
    /\ calls' = [Goto(i, "log") EXCEPT ![i].w = TRUE]
    /\ UNCHANGED <<faults, grantVars, dbBans, dbMutes, reportVars, logVars>>
    /\ AdmOnly

warnPlayerLog ==
  \E i \in InFlight :
    /\ calls[i].op = "warnPlayer" /\ calls[i].pc = "log"
    /\ LogAndReturn(i, "WARN", <<[name |-> "player:warn", playerId |-> calls[i].targetId]>>)
    /\ UNCHANGED <<grantVars, modVars, reportVars>>
    /\ AdmOnly

----------------------------------------------------------------------------
(* AdminManager: reports *)

\* the check for an open report of the reporter reads the active index only
createReport(reporterId, reportedId) ==
  /\ CanStartAdmin("createReport")
  /\ LET c == NewAdminCall("createReport", reporterId, reportedId, 0, {},
                           IF ExistingReport(activeReports, reporterId)
                           THEN "done" ELSE "insert")
     IN calls' = StartCall([c EXCEPT !.open0 =
                   \E id \in DOMAIN activeReports :
                     /\ activeReports[id].reporter_id = reporterId
                     /\ activeReports[id].status = "open"])
  /\ UNCHANGED <<faults, admVars>>
  /\ AdmOnly

\* INSERT INTO player_reports resolves; insertId is the new row's id
createReportInsert ==
  \E i \in InFlight :
    /\ calls[i].op = "createReport" /\ calls[i].pc = "insert"
    /\ dbReports' = Append(dbReports, [reporter_id |-> calls[i].adminId,
                                        reported_id |-> calls[i].targetId,
                                        status |-> "open", assigned_admin |-> 0])
    /\ calls' = [Goto(i, "name1") EXCEPT ![i].w = TRUE, ![i].rid = Len(dbReports) + 1]
    /\ UNCHANGED <<faults, grantVars, modVars, activeReports, logVars>>
    /\ AdmOnly

\* getCharacterName(reporterId) resolves (it never rejects)
createReportReporterName ==
  \E i \in InFlight :
    /\ calls[i].op = "createReport" /\ calls[i].pc = "name1"
    /\ calls' = Goto(i, "name2")
    /\ UNCHANGED <<faults, admVars>>
    /\ AdmOnly

\* getCharacterName(reportedId) resolves: the report enters the active index
createReportReportedName ==
  \E i \in InFlight :
    /\ calls[i].op = "createReport" /\ calls[i].pc = "name2"
    /\ activeReports' = MapSet(activeReports, calls[i].rid,
                               [reporter_id |-> calls[i].adminId,
                                reported_id |-> calls[i].targetId,
                                status |-> "open", assigned_admin |-> 0])
    /\ emitted' = Append(emitted, [name |-> "admin:newReport", playerId |-> calls[i].adminId])
    /\ calls' = [Return(i, TRUE) EXCEPT ![i].ev = TRUE]
    /\ UNCHANGED <<faults, grantVars, modVars, dbReports, adminActions, dbLogs>>
    /\ AdmOnly

acceptReport(reportId, adminId) ==
  /\ CanStartAdmin("acceptReport")
  /\ calls' = StartCall(NewAdminCall("acceptReport", adminId, reportId, 0, {},
                 IF /\ hasPermission(adminId, "handle_reports")
                    /\ reportId \in DOMAIN activeReports
                    /\ activeReports[reportId].assigned_admin = 0
                 THEN "update" ELSE "done"))
  /\ UNCHANGED <<faults, admVars>>
  /\ AdmOnly

\* the UPDATE resolves; `report` is the object read before the await, which
\* is in the index only if nobody removed it meanwhile
acceptReportUpdate ==
  \E i \in InFlight :
    /\ calls[i].op = "acceptReport" /\ calls[i].pc = "update"
    /\ LET id == calls[i].targetId
       IN /\ dbReports' = [dbReports EXCEPT ![id].assigned_admin = calls[i].adminId,
                                            ![id].status = "in_progress"]
          /\ activeReports' =
               IF id \in DOMAIN activeReports
               THEN [activeReports EXCEPT ![id].assigned_admin = calls[i].adminId,
                                          ![id].status = "in_progress"]
               ELSE activeReports
    /\ calls' = [Return(i, TRUE) EXCEPT ![i].w = TRUE]
    /\ UNCHANGED <<faults, grantVars, modVars, logVars>>
    /\ AdmOnly

\* a check that asks for the permission whoever is assigned
CanCloseNeedsPermission(reports, reportId, adminId) ==
  hasPermission(adminId, "close_any_report")

\* closeReport: the negation of `report.assigned_admin !== adminId &&
\* !this.hasPermission(adminId, "close_any_report")`
CanClose(reports, reportId, adminId) ==
  \/ reports[reportId].assigned_admin = adminId
  \/ hasPermission(adminId, "close_any_report")

\* the assigned admin may close without any permission
closeReport(reportId, adminId) ==
  /\ CanStartAdmin("closeReport")
  /\ LET found == reportId \in DOMAIN activeReports
         c == NewAdminCall("closeReport", adminId, reportId, 0, {},
                           IF found /\ CanClose(activeReports, reportId, adminId)
                           THEN "update" ELSE "done")
     IN calls' = StartCall([c EXCEPT
                   !.reporter = IF found THEN activeReports[reportId].reporter_id ELSE 0,
                   !.found = found,
                   !.asg = IF found THEN activeReports[reportId].assigned_admin ELSE 0,
                   !.cap = \/ "close_any_report" \in (IF adminId \in DOMAIN adminLevels
                                                      THEN adminLevels[adminId].permissions ELSE {})
                           \/ "*" \in (IF adminId \in DOMAIN adminLevels
                                       THEN adminLevels[adminId].permissions ELSE {})])
  /\ UNCHANGED <<faults, admVars>>
  /\ AdmOnly

closeReportUpdate ==
  \E i \in InFlight :
    /\ calls[i].op = "closeReport" /\ calls[i].pc = "update"
    /\ dbReports' = [dbReports EXCEPT ![calls[i].targetId].status = "closed"]
    /\ activeReports' = MapDelete(activeReports, calls[i].targetId)
    /\ emitted' = Append(emitted, [name |-> "player:reportClosed",
                                   playerId |-> calls[i].reporter])
    /\ calls' = [Return(i, TRUE) EXCEPT ![i].w = TRUE, ![i].ev = TRUE]
    /\ UNCHANGED <<faults, grantVars, modVars, adminActions, dbLogs>>
    /\ AdmOnly

----------------------------------------------------------------------------
(* The pending INSERT / UPDATE of an AdminManager operation rejects: the   *)
(* operation's catch block returns failure.  (The audit INSERT fails       *)
(* inside logAdminAction, see LogOutcomes.)                                *)

\* isPlayerBanned when its SELECT succeeds: an active row that has not expired
isPlayerBanned(playerId) ==
  \E k \in 1..Len(dbBans) :
    /\ dbBans[k].player_id = playerId /\ dbBans[k].active
    /\ (dbBans[k].expires_at = 0 \/ dbBans[k].expires_at > now)

\* isPlayerMuted when its SELECT succeeds: a mute always has an expiry
isPlayerMuted(playerId) ==
  \E k \in 1..Len(dbMutes) :
    /\ dbMutes[k].player_id = playerId /\ dbMutes[k].active
    /\ dbMutes[k].expires_at > now

\* time passes
Tick ==
  /\ now < MaxTime
  /\ now' = now + 1
  /\ UNCHANGED <<calls, faults, propVars, dbMoney, vehVars, admVars, facVars,
                 fleetVars, ecoVars, busVars>>

AdminOps ==
  {"setAdminLevel", "kickPlayer", "banPlayer", "unbanPlayer", "mutePlayer",
   "unmutePlayer", "warnPlayer", "createReport", "acceptReport", "closeReport"}

\* a setAdminLevel that updates memory before its upsert is known to have
\* succeeded
adminStoreErrorAfterMemory ==
  \E i \in InFlight :
    /\ calls[i].op \in AdminOps
    /\ calls[i].pc \in {"upsert", "insert", "update"}
    /\ faults > 0
    /\ faults' = faults - 1
    /\ calls' = [Return(i, FALSE) EXCEPT ![i].err = TRUE]
    /\ adminLevels' = IF calls[i].op = "setAdminLevel"
                      THEN SetAdminMemory(adminLevels, calls[i].targetId, calls[i].level,
                                          calls[i].permissions)
                      ELSE adminLevels
    /\ UNCHANGED <<dbAdminLevels, modVars, reportVars, logVars>>
    /\ AdmOnly

adminStoreError ==
  \E i \in InFlight :
    /\ calls[i].op \in AdminOps
    /\ calls[i].pc \in {"upsert", "insert", "update"}
    /\ faults > 0
    /\ faults' = faults - 1
    /\ calls' = [Return(i, FALSE) EXCEPT ![i].err = TRUE]
    /\ UNCHANGED admVars
    /\ AdmOnly

----------------------------------------------------------------------------
(* FactionManager (src/server/systems/factions/FactionManager.ts): the kick *)
(* and war handlers.  A handler reports to the player by message: ok says   *)
(* the success message was sent.  Two factions exist; a faction is named by *)
(* its id, and 3 is a name no faction has.  Character 0 stands for a name   *)
(* that getPlayerByName does not find.                                      *)

Factions == {1, 2}
FactionNames == Factions \cup {3}

\* getDefaultRanks: the permissions of each level
getDefaultRanks(level) ==
  CASE level = 10 -> {"invite", "kick", "promote", "demote", "war", "manage_money"}
    [] level = 9 -> {"invite", "kick", "promote", "demote", "manage_money"}
    [] level = 8 -> {"invite", "kick", "promote"}
    [] level = 7 -> {"invite", "kick"}
    [] level = 6 -> {"invite"}
    [] OTHER -> {}

\* loadFactionRanks after createDefaultRanks: the ten ranks of a faction,
\* ORDER BY level
loadFactionRanks ==
  [f \in Factions |->
     [k \in 1..10 |-> [faction_id |-> f, level |-> k, permissions |-> getDefaultRanks(k)]]]

\* createDefaultRanks: the rows of a new faction in the order of their
\* INSERTs, Leader (10) first
DefaultRankRows(f) ==
  [k \in 1..10 |-> [faction_id |-> f, level |-> 11 - k,
                    permissions |-> getDefaultRanks(11 - k)]]

\* SELECT * FROM faction_ranks ORDER BY faction_id, level: the rows of
\* faction f up to level l
RECURSIVE RanksUpTo(_, _, _)
RanksUpTo(rows, f, l) ==
  IF l = 0 THEN <<>>
  ELSE RanksUpTo(rows, f, l - 1)
         \o SelectSeq(rows, LAMBDA r : r.faction_id = f /\ r.level = l)

\* loadFactionRanks on a rank map that is already there: every selected row
\* is pushed to the list of its faction, which is created when missing
loadFactionRanksInto(ranks, rows) ==
  LET fs == {rows[k].faction_id : k \in 1..Len(rows)}
  IN [f \in DOMAIN ranks \cup fs |->
        (IF f \in DOMAIN ranks THEN ranks[f] ELSE <<>>) \o RanksUpTo(rows, f, 10)]

\* loadActiveWars: SELECT * FROM faction_wars WHERE status = 'active'
loadActiveWars(rows) ==
  [id \in {k \in 1..Len(rows) : rows[k].status = "active"} |-> rows[id]]

\* not in a faction
NoFaction == [faction_id |-> 0, faction_rank |-> 0]

\* player.characterData and player.factionData as CharacterManager loads
\* them from a characters row
LoadCharacter(row) ==
  [faction_id |-> row.faction_id, faction_rank |-> row.faction_rank,
   factionData |-> row.faction_id]

\* FactionManager.hasPermission: the first rank of the player's level
factionHasPermission(player, permission) ==
  /\ chars[player].factionData # 0 /\ chars[player].faction_rank # 0
  /\ chars[player].factionData \in DOMAIN factionRanks
  /\ LET ranks == factionRanks[chars[player].factionData]
         level == chars[player].faction_rank
     IN \E k \in 1..Len(ranks) :
          /\ ranks[k].level = level
          /\ \A j \in 1..(k - 1) : ranks[j].level # level
          /\ permission \in ranks[k].permissions

\* a comparison that lets a member of equal rank through
HigherRank(targetRank, callerRank) == targetRank > callerRank

\* handleFactionKick: `targetPlayer.characterData.faction_rank >=
\* player.characterData.faction_rank`
EqualOrHigherRank(targetRank, callerRank) == targetRank >= callerRank

\* handleFactionWar: existingWar, in either orientation
ExistingWar(wars, a, b) ==
  \E id \in DOMAIN wars :
    \/ wars[id].faction1_id = a /\ wars[id].faction2_id = b
    \/ wars[id].faction1_id = b /\ wars[id].faction2_id = a

\* The record of a FactionManager call.  f0 is player.factionData.id as the
\* handler read it before its await.  Ghost fields: perm0 says the caller
\* held the permission when the call started, cr0 and tr0 are the ranks of
\* caller and target and tf0 the target's faction then, war0 says a war of
\* the pair was in activeWars then, w that the call changed the store.
NewFactionCall(op, player, target, permission, pc) ==
  [op |-> op, player |-> player, target |-> target, pc |-> pc, ok |-> FALSE,
   err |-> FALSE, n |-> NextN, during |-> {calls[k].n : k \in InFlight},
   f0 |-> chars[player].factionData,
   perm0 |-> \E k \in 1..10 :
               /\ chars[player].factionData \in Factions
               /\ chars[player].faction_rank = k
               /\ permission \in getDefaultRanks(k),
   cr0 |-> chars[player].faction_rank,
   tr0 |-> IF op = "handleFactionKick" /\ target # 0 THEN chars[target].faction_rank ELSE 0,
   tf0 |-> IF op = "handleFactionKick" /\ target # 0 THEN chars[target].faction_id ELSE 0,
   war0 |-> /\ op = "handleFactionWar"
            /\ \E id \in DOMAIN activeWars :
                 {activeWars[id].faction1_id, activeWars[id].faction2_id}
                   = {chars[player].factionData, target},
   w |-> FALSE, k |-> 0, rid |-> 0]

CanStartFaction == NextN <= MaxFactionCalls

\* the checks before the await, in the order of the code
handleFactionKick(player, target) ==
  /\ CanStartFaction
  /\ calls' = StartCall(NewFactionCall("handleFactionKick", player, target, "kick",
       IF \/ chars[player].factionData = 0
          \/ ~factionHasPermission(player, "kick")
          \/ target = 0
          \/ chars[target].faction_id # chars[player].factionData
          \/ EqualOrHigherRank(chars[target].faction_rank, chars[player].faction_rank)
       THEN "done" ELSE "update"))
  /\ UNCHANGED <<faults, facVars>>
  /\ FacOnly

\* UPDATE characters SET faction_id = NULL, faction_rank = 0 resolves, then
\* the target's session is cleared and both players are told; the message to
\* the target reads player.factionData.name, which throws when the caller has
\* lost the faction in the meantime
handleFactionKickUpdate ==
  \E i \in InFlight :
    /\ calls[i].op = "handleFactionKick" /\ calls[i].pc = "update"
    /\ dbChars' = [dbChars EXCEPT ![calls[i].target] = NoFaction]
    /\ chars' = [chars EXCEPT ![calls[i].target] = LoadCharacter(NoFaction)]
    /\ calls' = [Return(i, TRUE) EXCEPT ![i].w = TRUE,
                                        ![i].err = (chars[calls[i].player].factionData = 0)]
    /\ UNCHANGED <<faults, factionRanks, activeWars, dbWars, facStore>>
    /\ FacOnly

handleFactionWar(player, targetFactionName) ==
  /\ CanStartFaction
  /\ calls' = StartCall(NewFactionCall("handleFactionWar", player, targetFactionName, "war",
       IF \/ chars[player].factionData = 0
          \/ ~factionHasPermission(player, "war")
          \/ targetFactionName \notin Factions
          \/ targetFactionName = chars[player].factionData
          \/ ExistingWar(activeWars, chars[player].factionData, targetFactionName)
       THEN "done" ELSE "insert"))
  /\ UNCHANGED <<faults, facVars>>
  /\ FacOnly

\* INSERT INTO faction_wars resolves (status defaults to active), then the
\* war object is built from player.factionData.id, which throws when the
\* declarer has lost the faction in the meantime, and is put in activeWars
handleFactionWarInsert ==
  \E i \in InFlight :
    /\ calls[i].op = "handleFactionWar" /\ calls[i].pc = "insert"
    /\ dbWars' = Append(dbWars, [faction1_id |-> calls[i].f0,
                                  faction2_id |-> calls[i].target,
                                  started_by |-> calls[i].player, status |-> "active"])
    /\ IF chars[calls[i].player].factionData = 0
       THEN /\ activeWars' = activeWars
            /\ calls' = [Return(i, FALSE) EXCEPT ![i].w = TRUE, ![i].err = TRUE]
       ELSE /\ activeWars' = MapSet(activeWars, Len(dbWars) + 1,
                                    [faction1_id |-> chars[calls[i].player].factionData,
                                     faction2_id |-> calls[i].target,
                                     started_by |-> calls[i].player, status |-> "active"])
            /\ calls' = [Return(i, TRUE) EXCEPT ![i].w = TRUE]
    /\ UNCHANGED <<faults, chars, dbChars, factionRanks, facStore>>
    /\ FacOnly

\* the pending UPDATE / INSERT rejects: the handler's catch block sends the
\* error message
factionStoreError ==
  \E i \in InFlight :
    /\ calls[i].op \in {"handleFactionKick", "handleFactionWar"}
    /\ faults > 0
    /\ faults' = faults - 1
    /\ calls' = [Return(i, FALSE) EXCEPT ![i].err = TRUE]
    /\ UNCHANGED facVars
    /\ FacOnly

----------------------------------------------------------------------------
(* FactionManager.handleFactionCreate.  `target` is the name asked for,    *)
(* `rid` the insertId of the new faction and `k` the number of rank rows   *)
(* createDefaultRanks has inserted.  The faction data is valid.            *)

handleFactionCreate(player, name) ==
  /\ CanStartFaction
  /\ calls' = StartCall(NewFactionCall("handleFactionCreate", player, name, "none",
                 IF chars[player].faction_id # 0 THEN "done" ELSE "select"))
  /\ UNCHANGED <<faults, facVars>>
  /\ FacOnly

\* SELECT id FROM factions WHERE name = ? OR tag = ? resolves
createSelect ==
  \E i \in InFlight :
    /\ calls[i].op = "handleFactionCreate" /\ calls[i].pc = "select"
    /\ calls' = IF \E f \in 1..Len(dbFactions) : dbFactions[f].name = calls[i].target
                THEN Return(i, FALSE) ELSE Goto(i, "insert")
    /\ UNCHANGED <<faults, facVars>>
    /\ FacOnly

\* INSERT INTO factions resolves; getFactionById is issued
createInsert ==
  \E i \in InFlight :
    /\ calls[i].op = "handleFactionCreate" /\ calls[i].pc = "insert"
    /\ dbFactions' = Append(dbFactions, [name |-> calls[i].target,
                                          leader_id |-> calls[i].player])
    /\ calls' = [Goto(i, "get") EXCEPT ![i].w = TRUE, ![i].rid = Len(dbFactions) + 1]
    /\ UNCHANGED <<faults, chars, dbChars, factionRanks, activeWars, dbWars, dbRanks,
                   dbInvites>>
    /\ FacOnly

\* getFactionById resolves with the row; createDefaultRanks issues its first INSERT
createGet ==
  \E i \in InFlight :
    /\ calls[i].op = "handleFactionCreate" /\ calls[i].pc = "get"
    /\ calls' = Goto(i, "rank")
    /\ UNCHANGED <<faults, facVars>>
    /\ FacOnly

\* one INSERT INTO faction_ranks resolves; after the tenth, loadFactionRanks
\* is called
createRankInsert ==
  \E i \in InFlight :
    /\ calls[i].op = "handleFactionCreate" /\ calls[i].pc = "rank"
    /\ dbRanks' = Append(dbRanks, DefaultRankRows(calls[i].rid)[calls[i].k + 1])
    /\ calls' = [Goto(i, IF calls[i].k + 1 = 10 THEN "reload" ELSE "rank")
                   EXCEPT ![i].k = calls[i].k + 1]
    /\ UNCHANGED <<faults, chars, dbChars, factionRanks, activeWars, dbWars, dbFactions,
                   dbInvites>>
    /\ FacOnly

\* "Reload ranks for this faction": the SELECT of loadFactionRanks resolves
\* and its loop pushes; UPDATE characters is issued
createReload ==
  \E i \in InFlight :
    /\ calls[i].op = "handleFactionCreate" /\ calls[i].pc = "reload"
    /\ factionRanks' = loadFactionRanksInto(factionRanks, dbRanks)
    /\ calls' = Goto(i, "member")
    /\ UNCHANGED <<faults, chars, dbChars, activeWars, dbWars, facStore>>
    /\ FacOnly

\* UPDATE characters SET faction_id = ?, faction_rank = 10 resolves; the
\* player's copy follows
createMember ==
  \E i \in InFlight :
    /\ calls[i].op = "handleFactionCreate" /\ calls[i].pc = "member"
    /\ dbChars' = [dbChars EXCEPT ![calls[i].player] =
                     [faction_id |-> calls[i].rid, faction_rank |-> 10]]
    /\ chars' = [chars EXCEPT ![calls[i].player] = LoadCharacter(dbChars'[calls[i].player])]
    /\ calls' = Return(i, TRUE)
    /\ UNCHANGED <<faults, factionRanks, activeWars, dbWars, facStore>>
    /\ FacOnly

\* a pending query of handleFactionCreate rejects.  getFactionById and
\* loadFactionRanks catch the error themselves: after the first the handler
\* ends without a word, after the second it goes on to the UPDATE
createStoreError ==
  \E i \in InFlight :
    /\ calls[i].op = "handleFactionCreate"
    /\ faults > 0
    /\ faults' = faults - 1
    /\ calls' = IF calls[i].pc = "reload"
                THEN [Goto(i, "member") EXCEPT ![i].err = TRUE]
                ELSE [Return(i, FALSE) EXCEPT ![i].err = TRUE]
    /\ UNCHANGED facVars
    /\ FacOnly

----------------------------------------------------------------------------
(* FactionManager.handleFactionAccept.  `rid` is the id and `target` the   *)
(* faction of the invitation the SELECT returned.  Every faction of the    *)
(* store is in this.factions.                                              *)

\* the invitations of the character that have not expired and whose faction
\* exists: WHERE fi.character_id = ? AND fi.expires_at > NOW(), with the JOIN
PendingInvites(characterId) ==
  {id \in DOMAIN dbInvites :
     /\ dbInvites[id].character_id = characterId
     /\ dbInvites[id].expires_at > now
     /\ dbInvites[id].faction_id \in 1..Len(dbFactions)}

handleFactionAccept(player) ==
  /\ CanStartFaction
  /\ calls' = StartCall(NewFactionCall("handleFactionAccept", player, 0, "none",
                 IF chars[player].faction_id # 0 THEN "done" ELSE "select"))
  /\ UNCHANGED <<faults, facVars>>
  /\ FacOnly

\* an accept that takes the invitation created first
acceptSelectOldest ==
  \E i \in InFlight :
    /\ calls[i].op = "handleFactionAccept" /\ calls[i].pc = "select"
    /\ LET open == PendingInvites(calls[i].player)
       IN IF open = {}
          THEN calls' = Return(i, FALSE)
          ELSE \E id \in open :
                 /\ \A other \in open : dbInvites[other].created_at >= dbInvites[id].created_at
                 /\ calls' = [Goto(i, "update") EXCEPT ![i].rid = id,
                                ![i].target = dbInvites[id].faction_id]
    /\ UNCHANGED <<faults, facVars>>
    /\ FacOnly

\* the SELECT ... ORDER BY fi.created_at DESC LIMIT 1 resolves: no row ends
\* the call; of rows created in the same second the store returns either
acceptSelect ==
  \E i \in InFlight :
    /\ calls[i].op = "handleFactionAccept" /\ calls[i].pc = "select"
    /\ LET open == PendingInvites(calls[i].player)
       IN IF open = {}
          THEN calls' = Return(i, FALSE)
          ELSE \E id \in open :
                 /\ \A other \in open : dbInvites[other].created_at <= dbInvites[id].created_at
                 /\ calls' = [Goto(i, "update") EXCEPT ![i].rid = id,
                                ![i].target = dbInvites[id].faction_id]
    /\ UNCHANGED <<faults, facVars>>
    /\ FacOnly

\* UPDATE characters SET faction_id = ?, faction_rank = 1 resolves
acceptUpdate ==
  \E i \in InFlight :
    /\ calls[i].op = "handleFactionAccept" /\ calls[i].pc = "update"
    /\ dbChars' = [dbChars EXCEPT ![calls[i].player] =
                     [faction_id |-> calls[i].target, faction_rank |-> 1]]
    /\ calls' = [Goto(i, "delete") EXCEPT ![i].w = TRUE]
    /\ UNCHANGED <<faults, chars, factionRanks, activeWars, dbWars, facStore>>
    /\ FacOnly

\* DELETE FROM faction_invites WHERE id = ? resolves; the player's copy follows
acceptDelete ==
  \E i \in InFlight :
    /\ calls[i].op = "handleFactionAccept" /\ calls[i].pc = "delete"
    /\ dbInvites' = MapDelete(dbInvites, calls[i].rid)
    /\ chars' = [chars EXCEPT ![calls[i].player] =
                   [faction_id |-> calls[i].target, faction_rank |-> 1,
                    factionData |-> calls[i].target]]
    /\ calls' = Return(i, TRUE)
    /\ UNCHANGED <<faults, dbChars, factionRanks, activeWars, dbWars, dbFactions, dbRanks>>
    /\ FacOnly

\* a pending query of handleFactionAccept rejects: the catch block answers
acceptStoreError ==
  \E i \in InFlight :
    /\ calls[i].op = "handleFactionAccept"
    /\ faults > 0
    /\ faults' = faults - 1
    /\ calls' = [Return(i, FALSE) EXCEPT ![i].err = TRUE]
    /\ UNCHANGED facVars
    /\ FacOnly

\* the faction side when no FactionManager operation is modelled: no
\* faction has been created yet
FacIdle ==
  /\ dbChars = [p \in Players |-> NoFaction]
  /\ chars = [p \in Players |-> LoadCharacter(dbChars[p])]
  /\ factionRanks = EmptyMap
  /\ dbWars = <<>>
  /\ activeWars = EmptyMap
  /\ dbFactions = <<>> /\ dbRanks = <<>> /\ dbInvites = <<>>

----------------------------------------------------------------------------
(* EventManager (src/unnamed/part_001).  One topic is modelled.  A listener *)
(* is a callback with an identity (indexOf compares by identity) and a      *)
(* behaviour: it returns, or it throws.  `once` registers a wrapper that    *)
(* calls the callback and then removes itself with `off`.                   *)

ListenerIds == 1..MaxListeners

Listener(id, throws, wrapped) == [id |-> id, throws |-> throws, once |-> wrapped]

\* EventManager.off: indexOf on the identity of the registered function,
\* then splice(index, 1)
Off(arr, id) ==
  IF \E k \in 1..Len(arr) : arr[k].id = id
  THEN LET index == CHOOSE k \in 1..Len(arr) :
                      arr[k].id = id /\ \A j \in 1..(k - 1) : arr[j].id # id
       IN SubSeq(arr, 1, index - 1) \o SubSeq(arr, index + 1, Len(arr))
  ELSE arr

\* nothing was emitted yet
NoEmit == [ran |-> FALSE, args |-> 0, at0 |-> {}, invoked |-> {}, threw |-> {},
           returned |-> FALSE, reg |-> <<>>, order |-> <<>>]

RECURSIVE ForEach(_, _, _, _)
\* callbacks.forEach(...) of emit from index k on: forEach reads the live
\* array, so an element that moved below k is not visited.  Every callback
\* runs inside try/catch.  The wrapper of `once` calls `off` on itself only
\* when its callback returned.
ForEach(arr, k, args, log) ==
  IF k > Len(arr) THEN [callbacks |-> arr, log |-> log]
  ELSE LET cb == arr[k]
           seen == [log EXCEPT !.invoked = @ \cup {<<cb.id, args>>},
                               !.order = Append(@, cb.id),
                               !.threw = IF cb.throws THEN @ \cup {cb.id} ELSE @]
       IN ForEach(IF cb.once /\ ~cb.throws THEN Off(arr, cb.id) ELSE arr,
                  k + 1, args, seen)

\* EventManager.on
on(id, throws) ==
  /\ \A k \in 1..Len(callbacks) : callbacks[k].id # id
  /\ callbacks' = Append(callbacks, Listener(id, throws, FALSE))
  /\ UNCHANGED <<calls, faults, propVars, dbMoney, vehVars, admVars, now, facVars,
                 fleetVars, ecoVars, lastEmit>>

\* EventManager.once
once(id, throws) ==
  /\ \A k \in 1..Len(callbacks) : callbacks[k].id # id
  /\ callbacks' = Append(callbacks, Listener(id, throws, TRUE))
  /\ UNCHANGED <<calls, faults, propVars, dbMoney, vehVars, admVars, now, facVars,
                 fleetVars, ecoVars, lastEmit>>

\* EventManager.off with a function registered through `on`
off(id) ==
  /\ \E k \in 1..Len(callbacks) : callbacks[k].id = id /\ ~callbacks[k].once
  /\ callbacks' = Off(callbacks, id)
  /\ UNCHANGED <<calls, faults, propVars, dbMoney, vehVars, admVars, now, facVars,
                 fleetVars, ecoVars, lastEmit>>

\* EventManager.emit
emit(args) ==
  LET r == ForEach(callbacks, 1, args,
                   [ran |-> TRUE, args |-> args, at0 |-> {callbacks[k].id : k \in 1..Len(callbacks)},
                    invoked |-> {}, threw |-> {}, returned |-> TRUE,
                    reg |-> [k \in 1..Len(callbacks) |-> callbacks[k].id],
                    order |-> <<>>])
  IN /\ callbacks # <<>>
     /\ callbacks' = r.callbacks
     /\ lastEmit' = r.log
     /\ UNCHANGED <<calls, faults, propVars, dbMoney, vehVars, admVars, now, facVars,
                    fleetVars, ecoVars>>

\* the bus when no listener is modelled
BusIdle == callbacks = <<>> /\ lastEmit = NoEmit

----------------------------------------------------------------------------
(* EconomyManager (src/server/systems/jobs/JobManager.ts).  removeMoney     *)
(* reads the balance from the store; the command handlers read the copy    *)
(* the connected player carries (player.characterData) and bring it up to   *)
(* date after their UPDATE.  recordTransaction swallows its own failure.    *)

EcoOps ==
  {"addMoney", "removeMoney", "handleMoneyTransfer", "handleBankDeposit", "handleBankWithdraw"}

\* `money` and `bank_money` are the values of the player's copy and `cash0`
\* and `bank0` the stored balances when the call starts
NewEcoCall(op, pl, to, amount, field, pc) ==
  [op |-> op, pl |-> pl, to |-> to, amount |-> amount, field |-> field, pc |-> pc,
   ok |-> FALSE, err |-> FALSE, n |-> NextN, during |-> {calls[k].n : k \in InFlight},
   money |-> session[pl].money, bank_money |-> session[pl].bank_money,
   cash0 |-> dbMoney[pl], bank0 |-> dbBank[pl]]

CanStartEco == NextN <= MaxEcoCalls

\* what an EconomyManager step leaves alone
EcoOnly == UNCHANGED <<propVars, vehVars, admVars, now, facVars, fleetVars, busVars>>

\* the column `field` of the character's row
Balance(field, characterId) ==
  IF field = "cash" THEN dbMoney[characterId] ELSE dbBank[characterId]

\* UPDATE characters SET money = money + cash, bank_money = bank_money + bank
UpdateBalances(characterId, cash, bank) ==
  /\ dbMoney' = [dbMoney EXCEPT ![characterId] = @ + cash]
  /\ dbBank' = [dbBank EXCEPT ![characterId] = @ + bank]

\* addMoney up to its UPDATE
addMoney(characterId, amount, field) ==
  /\ CanStartEco
  /\ calls' = StartCall(NewEcoCall("addMoney", characterId, 0, amount, field,
                                   IF amount <= 0 THEN "done" ELSE "update"))
  /\ UNCHANGED <<faults, dbMoney, ecoVars>>
  /\ EcoOnly

\* UPDATE characters SET field = field + ? resolves; the player's copy is
\* not touched
addMoneyUpdate ==
  \E i \in InFlight :
    /\ calls[i].op = "addMoney" /\ calls[i].pc = "update"
    /\ IF calls[i].field = "cash"
       THEN UpdateBalances(calls[i].pl, calls[i].amount, 0)
       ELSE UpdateBalances(calls[i].pl, 0, calls[i].amount)
    /\ calls' = Goto(i, "record")
    /\ UNCHANGED <<faults, session>>
    /\ EcoOnly

removeMoney(characterId, amount, field) ==
  /\ CanStartEco
  /\ calls' = StartCall(NewEcoCall("removeMoney", characterId, 0, amount, field,
                                   IF amount <= 0 THEN "done" ELSE "select"))
  /\ UNCHANGED <<faults, dbMoney, ecoVars>>
  /\ EcoOnly

\* SELECT balance resolves: "Check if character has enough money"
removeMoneySelect ==
  \E i \in InFlight :
    /\ calls[i].op = "removeMoney" /\ calls[i].pc = "select"
    /\ calls' = IF Balance(calls[i].field, calls[i].pl) < calls[i].amount
                THEN Return(i, FALSE)
                ELSE Goto(i, "update")
    /\ UNCHANGED <<faults, dbMoney, ecoVars>>
    /\ EcoOnly

\* UPDATE characters SET field = field - ? resolves
removeMoneyUpdate ==
  \E i \in InFlight :
    /\ calls[i].op = "removeMoney" /\ calls[i].pc = "update"
    /\ IF calls[i].field = "cash"
       THEN UpdateBalances(calls[i].pl, 0 - calls[i].amount, 0)
       ELSE UpdateBalances(calls[i].pl, 0, 0 - calls[i].amount)
    /\ calls' = Goto(i, "record")
    /\ UNCHANGED <<faults, session>>
    /\ EcoOnly

\* recordTransaction resolves, with or without its row
ecoRecordTransaction ==
  \E i \in InFlight :
    /\ calls[i].op \in EcoOps /\ calls[i].pc = "record"
    /\ calls' = Return(i, TRUE)
    /\ UNCHANGED <<faults, dbMoney, ecoVars>>
    /\ EcoOnly

\* handleMoneyTransfer up to its first UPDATE (both players are connected
\* and stand close to each other)
handleMoneyTransfer(fromPlayer, toPlayer, amount) ==
  /\ CanStartEco
  /\ calls' = StartCall(NewEcoCall("handleMoneyTransfer", fromPlayer, toPlayer, amount, "cash",
                                   IF amount <= 0 \/ amount > 1000000
                                        \/ session[fromPlayer].money < amount
                                   THEN "done" ELSE "debit"))
  /\ UNCHANGED <<faults, dbMoney, ecoVars>>
  /\ EcoOnly

\* UPDATE characters SET money = money - ? of the sender resolves
transferDebit ==
  \E i \in InFlight :
    /\ calls[i].op = "handleMoneyTransfer" /\ calls[i].pc = "debit"
    /\ UpdateBalances(calls[i].pl, 0 - calls[i].amount, 0)
    /\ calls' = Goto(i, "credit")
    /\ UNCHANGED <<faults, session>>
    /\ EcoOnly

\* UPDATE ... money + ? of the receiver resolves; "Update local data"
transferCredit ==
  \E i \in InFlight :
    /\ calls[i].op = "handleMoneyTransfer" /\ calls[i].pc = "credit"
    /\ UpdateBalances(calls[i].to, calls[i].amount, 0)
    /\ session' = [session EXCEPT ![calls[i].pl].money = @ - calls[i].amount,
                                  ![calls[i].to].money = @ + calls[i].amount]
    /\ calls' = Goto(i, "record")
    /\ UNCHANGED faults
    /\ EcoOnly

handleBankDeposit(player, amount) ==
  /\ CanStartEco
  /\ calls' = StartCall(NewEcoCall("handleBankDeposit", player, 0, amount, "cash",
                                   IF amount <= 0 \/ amount > session[player].money
                                   THEN "done" ELSE "update"))
  /\ UNCHANGED <<faults, dbMoney, ecoVars>>
  /\ EcoOnly

handleBankWithdraw(player, amount) ==
  /\ CanStartEco
  /\ calls' = StartCall(NewEcoCall("handleBankWithdraw", player, 0, amount, "bank",
                                   IF amount <= 0 \/ amount > session[player].bank_money
                                   THEN "done" ELSE "update"))
  /\ UNCHANGED <<faults, dbMoney, ecoVars>>
  /\ EcoOnly

\* the UPDATE of a deposit or of a withdrawal resolves; the player's copy follows
bankUpdate ==
  \E i \in InFlight :
    /\ calls[i].op \in {"handleBankDeposit", "handleBankWithdraw"} /\ calls[i].pc = "update"
    /\ LET d == IF calls[i].op = "handleBankDeposit" THEN calls[i].amount
                ELSE 0 - calls[i].amount
       IN /\ UpdateBalances(calls[i].pl, 0 - d, d)
          /\ session' = [session EXCEPT ![calls[i].pl].money = @ - d,
                                        ![calls[i].pl].bank_money = @ + d]
    /\ calls' = Goto(i, "record")
    /\ UNCHANGED faults
    /\ EcoOnly

\* a pending query of an EconomyManager call rejects: the catch block answers
ecoStoreError ==
  \E i \in InFlight :
    /\ calls[i].op \in EcoOps /\ calls[i].pc # "record"
    /\ faults > 0
    /\ faults' = faults - 1
    /\ calls' = [Return(i, FALSE) EXCEPT ![i].err = TRUE]
    /\ UNCHANGED <<dbMoney, ecoVars>>
    /\ EcoOnly

----------------------------------------------------------------------------
(* CharacterManager.saveCharacterData                                       *)
(* (src/server/systems/player/CharacterManager.ts), run at logout: the     *)
(* UPDATE carries the money and bank_money of the player's copy as they    *)
(* are when the query is issued.                                           *)

saveCharacterData(player) ==
  /\ CanStartEco
  /\ calls' = StartCall(NewEcoCall("saveCharacterData", player, 0, 0, "cash", "save"))
  /\ UNCHANGED <<faults, dbMoney, ecoVars>>
  /\ EcoOnly

\* UPDATE characters SET money = ?, bank_money = ?, ... resolves
saveCharacterUpdate ==
  \E i \in InFlight :
    /\ calls[i].op = "saveCharacterData" /\ calls[i].pc = "save"
    /\ dbMoney' = [dbMoney EXCEPT ![calls[i].pl] = calls[i].money]
    /\ dbBank' = [dbBank EXCEPT ![calls[i].pl] = calls[i].bank_money]
    /\ calls' = Return(i, TRUE)
    /\ UNCHANGED <<faults, session>>
    /\ EcoOnly

\* the UPDATE rejects: the catch block logs
saveCharacterError ==
  \E i \in InFlight :
    /\ calls[i].op = "saveCharacterData" /\ calls[i].pc = "save"
    /\ faults > 0
    /\ faults' = faults - 1
    /\ calls' = [Return(i, FALSE) EXCEPT ![i].err = TRUE]
    /\ UNCHANGED <<dbMoney, ecoVars>>
    /\ EcoOnly

----------------------------------------------------------------------------
(* Idle sides of the fleet and of the economy *)

\* the vehicles table and the engines when only the keys are modelled
FleetIdle ==
  /\ dbVehicles = [id \in VehIds |-> [owner_id |-> 1, impounded |-> FALSE, deleted |-> FALSE]]
  /\ engine = [id \in VehIds |-> FALSE]

\* the bank balances and the connected players' copies of their cash when
\* no EconomyManager handler is modelled
EcoIdle ==
  /\ dbBank = [p \in Players |-> 0]
  /\ session = [p \in Players |->
                 [money |-> IF p = 1 THEN HighCash ELSE Price, bank_money |-> 0]]

----------------------------------------------------------------------------
(* Initial states: the store holds one property in a state that satisfies  *)
(* the data model, memory is what loadProperties builds from it.           *)

LoadedKeys(row, spare) ==
  (IF row.owner_id # 0 THEN <<KeyRow(row.owner_id, "owner")>> ELSE <<>>)
  \o (IF row.rented_by # 0 /\ row.rented_by # row.owner_id
      THEN <<KeyRow(row.rented_by, "renter")>> ELSE <<>>)
  \o (IF spare # 0 /\ spare # row.owner_id /\ spare # row.rented_by
      THEN <<KeyRow(spare, "spare")>> ELSE <<>>)

InitRows ==
  {r \in [owner_id : {0} \cup Players, for_sale : BOOLEAN,
          for_rent : BOOLEAN, rented_by : {0} \cup Players] :
     /\ r.for_sale = (r.owner_id = 0)
     /\ r.rented_by # 0 => (r.for_rent /\ ~r.for_sale /\ r.rented_by # r.owner_id)}

InitPropFrom(rows) ==
  /\ \E r \in rows, spare \in {0, 2} :
       /\ dbProperties = [id \in PropIds |-> r]
       /\ dbPropertyKeys = [id \in PropIds |-> LoadedKeys(r, spare)]
  /\ properties = dbProperties
  /\ propertyKeys = dbPropertyKeys
  \* character 1 can pay everything, character 2 exactly one purchase
  /\ dbMoney = [p \in Players |-> IF p = 1 THEN HighCash ELSE Price]
  /\ EcoIdle

InitProp == InitPropFrom(InitRows)

\* One vehicle, owned by character 1.  loadVehicles reads the vehicles table
\* only: the in-memory key lists are empty after construction, whatever
\* vehicle_keys holds.
InitVeh ==
  /\ vehicles = [id \in VehIds |-> [owner_id |-> 1, impounded |-> FALSE]]
  /\ FleetIdle
  /\ vehicleKeys = [id \in VehIds |-> <<>>]
  /\ \E rows \in {<<>>, <<KeyRow(1, "owner"), KeyRow(2, "spare")>>} :
       dbVehicleKeys = [id \in VehIds |-> rows]

\* the vehicle side when no VehicleManager operation is modelled
VehIdle ==
  /\ vehicles = [id \in VehIds |-> [owner_id |-> 1, impounded |-> FALSE]]
  /\ FleetIdle
  /\ vehicleKeys = [id \in VehIds |-> <<>>]
  /\ dbVehicleKeys = [id \in VehIds |-> <<>>]

\* the property side when no PropertyManager operation is modelled
PropIdle ==
  /\ dbProperties = [id \in PropIds |->
                       [owner_id |-> 0, for_sale |-> TRUE, for_rent |-> FALSE, rented_by |-> 0]]
  /\ dbPropertyKeys = [id \in PropIds |-> <<>>]
  /\ properties = dbProperties
  /\ propertyKeys = dbPropertyKeys
  /\ dbMoney = [p \in Players |-> IF p = 1 THEN HighCash ELSE Price]
  /\ EcoIdle

\* the tables a fresh installation starts with
NoModeration == dbBans = <<>> /\ dbMutes = <<>> /\ dbWarnings = <<>>

NoReports == dbReports = <<>> /\ activeReports = EmptyMap

NoLogs == adminActions = <<>> /\ dbLogs = <<>> /\ emitted = <<>>

\* the admin side when no AdminManager operation is modelled
AdmIdle ==
  /\ adminLevels = EmptyMap /\ dbAdminLevels = EmptyMap
  /\ NoModeration /\ NoReports /\ NoLogs

Init ==
  /\ calls = <<>>
  /\ faults = MaxFaults
  /\ now = 1
  /\ BusIdle
  /\ FacIdle
  /\ InitProp
  /\ VehIdle
  /\ AdmIdle

\* the key operations do not read the rental columns
InitKeyOps ==
  /\ calls = <<>>
  /\ faults = MaxFaults
  /\ now = 1
  /\ BusIdle
  /\ FacIdle
  /\ InitPropFrom({r \in InitRows : ~r.for_rent})
  /\ InitVeh
  /\ AdmIdle

NextProp ==
  \/ \E id \in PropIds, p \in Players : purchaseProperty(id, p)
  \/ purchaseCheckMoney \/ purchaseTransfer \/ purchaseDeduct
  \/ \E id \in PropIds, p \in Players, kt \in KeyTypes : giveKey(id, p, kt)
  \/ giveKeySelect \/ giveKeyInsert
  \/ \E id \in PropIds, p \in Players : sellProperty(id, p)
  \/ sellCredit \/ sellClear \/ sellDeleteKeys
  \/ \E id \in PropIds, p \in Players : rentProperty(id, p)
  \/ rentCheckMoney \/ rentSetRental \/ rentDeduct
  \/ \E id \in PropIds, p \in Players : removeKey(id, p)
  \/ removeKeyDelete
  \/ storeError

SpecProp == Init /\ [][NextProp]_vars

\* The key operations of both managers.
NextKeys ==
  \/ \E id \in PropIds, p \in Players, kt \in KeyTypes : giveKey(id, p, kt)
  \/ giveKeySelect \/ giveKeyInsert
  \/ \E id \in PropIds, p \in Players : removeKey(id, p)
  \/ removeKeyDelete
  \/ storeError
  \/ \E id \in VehIds, p \in Players, kt \in {"owner", "spare"} : vehicleGiveKey(id, p, kt)
  \/ vehicleGiveKeySelect \/ vehicleGiveKeyInsert
  \/ \E id \in VehIds, p \in Players : vehicleRemoveKey(id, p)
  \/ vehicleRemoveKeyDelete
  \/ vehicleStoreError

SpecKeys == InitKeyOps /\ [][NextKeys]_vars

----------------------------------------------------------------------------
(* AdminManager: initial states and specifications *)

GrantRow(level, permissions) ==
  [level |-> level, permissions |-> permissions, active |-> TRUE]

\* admin_levels holds any choice of: character 1 a full administrator,
\* character 2 a moderator
InitGrantRows ==
  {EmptyMap,
   MapSet(EmptyMap, 1, GrantRow(10, {"*"})),
   MapSet(EmptyMap, 2, GrantRow(3, getDefaultPermissions(3))),
   MapSet(MapSet(EmptyMap, 1, GrantRow(10, {"*"})), 2, GrantRow(3, getDefaultPermissions(3)))}

InitGrants ==
  /\ dbAdminLevels \in InitGrantRows
  /\ adminLevels = loadAdminLevels(dbAdminLevels)

\* player_reports is empty or holds one open report of character 1
InitReports ==
  /\ dbReports \in {<<>>, <<[reporter_id |-> 1, reported_id |-> 2,
                              status |-> "open", assigned_admin |-> 0]>>}
  /\ activeReports = loadActiveReports(dbReports)

InitAdmin ==
  /\ calls = <<>>
  /\ faults = MaxFaults
  /\ now = 1
  /\ BusIdle
  /\ FacIdle
  /\ PropIdle /\ VehIdle
  /\ InitGrants /\ InitReports /\ NoModeration /\ NoLogs

InitMod ==
  /\ calls = <<>>
  /\ faults = MaxFaults
  /\ now = 1
  /\ BusIdle
  /\ FacIdle
  /\ PropIdle /\ VehIdle
  /\ InitGrants /\ NoReports /\ NoModeration /\ NoLogs

\* setAdminLevel arguments: levels outside 0..10, revocations with and
\* without a permission list, grants
GrantArgs ==
  {[level |-> 0 - 1, permissions |-> {}], [level |-> 11, permissions |-> {"*"}],
   [level |-> 0, permissions |-> {}], [level |-> 0, permissions |-> {"*"}],
   [level |-> 1, permissions |-> {"kick"}], [level |-> 10, permissions |-> {"*"}]}

NextGrant ==
  \/ \E playerId \in Players, g \in GrantArgs :
       setAdminLevel(playerId, g.level, g.permissions, 1)
  \/ setAdminLevelUpsert \/ setAdminLevelResume \/ setAdminLevelLog
  \/ adminStoreError

SpecGrant == InitMod /\ [][NextGrant]_vars

\* The audit log alone.  The process has logged 0, AuditCap - 1, AuditCap or
\* AuditCap + 1 entries so far; the buffer holds the last AuditCap of them.
AuditEntry(k) ==
  [admin_id |-> 1 + (k % 2), action |-> IF k % 3 = 0 THEN "KICK" ELSE "WARN", target_id |-> 1]

InitAudit ==
  /\ calls = <<>>
  /\ faults = MaxFaults
  /\ now = 1
  /\ BusIdle
  /\ FacIdle
  /\ PropIdle /\ VehIdle
  /\ adminLevels = EmptyMap /\ dbAdminLevels = EmptyMap
  /\ NoReports /\ NoModeration
  /\ emitted = <<>>
  /\ \E n \in {0, AuditCap - 1, AuditCap, AuditCap + 1} :
       /\ dbLogs = [k \in 1..n |-> AuditEntry(k)]
       /\ adminActions = IF n > AuditCap
                         THEN [k \in 1..AuditCap |-> AuditEntry(n - AuditCap + k)]
                         ELSE dbLogs

NextAudit ==
  \E adminId \in Players, action \in {"KICK", "BAN"}, targetId \in Players :
    logAdminActionCall(adminId, action, targetId)

SpecAudit == InitAudit /\ [][NextAudit]_vars

\* The setadmin command through both entry points.
NextSetAdmin ==
  \/ \E adminId \in Players, targetId \in Players, level \in {0, 1, 9, 11} :
       handleSetAdmin(adminId, targetId, level)
  \/ \E adminId \in Players, targetId \in Players, level \in {0, 1, 9, 11} :
       handleCommand(adminId, targetId, level)
  \/ setAdminLevelUpsert \/ setAdminLevelResume \/ setAdminLevelLog
  \/ adminStoreError

SpecSetAdmin == InitMod /\ [][NextSetAdmin]_vars

\* the moderation operations
NextMod ==
  \/ \E t \in ModTargets, a \in Players :
       \/ kickPlayer(t, a)
       \/ \E duration \in {0, 1} : banPlayer(t, a, duration)
       \/ unbanPlayer(t, a)
       \/ mutePlayer(t, a)
       \/ unmutePlayer(t, a)
       \/ warnPlayer(t, a)
  \/ kickPlayerLog
  \/ banPlayerInsert \/ banPlayerLog
  \/ unbanPlayerUpdate \/ unbanPlayerLog
  \/ mutePlayerInsert \/ mutePlayerLog
  \/ unmutePlayerUpdate \/ unmutePlayerLog
  \/ warnPlayerInsert \/ warnPlayerLog
  \/ adminStoreError

SpecMod == InitMod /\ [][NextMod]_vars

\* the report operations and the revocation of the moderator's grant
NextReport ==
  \/ \E r \in Players : createReport(r, 3 - r)
  \/ createReportInsert \/ createReportReporterName \/ createReportReportedName
  \/ \E id \in ReportIds, a \in Players : acceptReport(id, a)
  \/ acceptReportUpdate
  \/ \E id \in ReportIds, a \in Players : closeReport(id, a)
  \/ closeReportUpdate
  \/ setAdminLevel(2, 0, {}, 1)
  \/ setAdminLevelUpsert \/ setAdminLevelResume \/ setAdminLevelLog
  \/ adminStoreError

SpecReport == InitAdmin /\ [][NextReport]_vars

\* report handling by a fixed staff: character 1 a full administrator,
\* character 2 a moderator
InitTriage ==
  /\ calls = <<>>
  /\ faults = MaxFaults
  /\ now = 1
  /\ BusIdle
  /\ FacIdle
  /\ PropIdle /\ VehIdle
  /\ dbAdminLevels = MapSet(MapSet(EmptyMap, 1, GrantRow(10, {"*"})),
                            2, GrantRow(3, getDefaultPermissions(3)))
  /\ adminLevels = loadAdminLevels(dbAdminLevels)
  /\ InitReports /\ NoModeration /\ NoLogs

NextTriage ==
  \/ \E r \in Players : createReport(r, 3 - r)
  \/ createReportInsert \/ createReportReporterName \/ createReportReportedName
  \/ \E id \in ReportIds, a \in Players : acceptReport(id, a)
  \/ acceptReportUpdate
  \/ \E id \in ReportIds, a \in Players : closeReport(id, a)
  \/ closeReportUpdate
  \/ adminStoreError

SpecTriage == InitTriage /\ [][NextTriage]_vars

\* The operations that notify a collaborator, by a fixed staff.
NextNotify ==
  \/ \E t \in ModTargets, a \in Players :
       \/ banPlayer(t, a, 0)
       \/ warnPlayer(t, a)
  \/ banPlayerInsert \/ banPlayerLog
  \/ warnPlayerInsert \/ warnPlayerLog
  \/ createReport(2, 1)
  \/ createReportInsert \/ createReportReporterName \/ createReportReportedName
  \/ \E a \in Players : closeReport(1, a)
  \/ closeReportUpdate
  \/ adminStoreError

SpecNotify == InitTriage /\ [][NextNotify]_vars

\* The operations that end with an audit entry, by a fixed staff.
NextAuditTail ==
  \/ \E t \in ModTargets, a \in Players :
       \/ kickPlayer(t, a)
       \/ \E duration \in {0, 1} : banPlayer(t, a, duration)
       \/ mutePlayer(t, a)
       \/ warnPlayer(t, a)
  \/ kickPlayerLog
  \/ banPlayerInsert \/ banPlayerLog
  \/ mutePlayerInsert \/ mutePlayerLog
  \/ warnPlayerInsert \/ warnPlayerLog
  \/ \E level \in {0, 1} : setAdminLevel(2, level, getDefaultPermissions(level), 1)
  \/ setAdminLevelUpsert \/ setAdminLevelResume \/ setAdminLevelLog
  \/ adminStoreError

SpecAuditTail == InitTriage /\ [][NextAuditTail]_vars

\* bans and the clock
NextBan ==
  \/ \E t \in ModTargets, a \in Players, duration \in {0, 1} : banPlayer(t, a, duration)
  \/ banPlayerInsert \/ banPlayerLog
  \/ \E t \in ModTargets, a \in Players : unbanPlayer(t, a)
  \/ unbanPlayerUpdate \/ unbanPlayerLog
  \/ Tick
  \/ adminStoreError

SpecBan == InitMod /\ [][NextBan]_vars

----------------------------------------------------------------------------
(* FactionManager: initial states and specifications *)

\* each character is in no faction, or a member of a faction as a prospect
\* (3), a lieutenant (7) or the leader (10)
InitMemberships ==
  {NoFaction} \cup {[faction_id |-> f, faction_rank |-> r] : f \in Factions, r \in {3, 7, 10}}

\* faction_wars is empty or holds one war of the two factions, active or ended
InitWars ==
  {<<>>} \cup {<<[faction1_id |-> 1, faction2_id |-> 2, started_by |-> 1, status |-> st]>> :
                 st \in {"active", "ended"}}

InitFaction ==
  /\ calls = <<>>
  /\ faults = MaxFaults
  /\ now = 1
  /\ BusIdle
  /\ PropIdle /\ VehIdle /\ AdmIdle
  /\ dbChars \in [Players -> InitMemberships]
  /\ chars = [p \in Players |-> LoadCharacter(dbChars[p])]
  /\ factionRanks = loadFactionRanks
  /\ dbWars \in InitWars
  /\ activeWars = loadActiveWars(dbWars)
  /\ dbFactions = [f \in Factions |-> [name |-> f, leader_id |-> 0]]
  /\ dbRanks = DefaultRankRows(1) \o DefaultRankRows(2)
  /\ dbInvites = <<>>

NextFaction ==
  \/ \E player \in Players, target \in Players \cup {0} : handleFactionKick(player, target)
  \/ handleFactionKickUpdate
  \/ \E player \in Players, name \in FactionNames : handleFactionWar(player, name)
  \/ handleFactionWarInsert
  \/ factionStoreError

SpecFaction == InitFaction /\ [][NextFaction]_vars

\* Faction creations, one after another.  The store holds no faction, or faction 1 with its
\* ten ranks and character 1 as its leader.
InitCreate ==
  /\ calls = <<>>
  /\ faults = MaxFaults
  /\ now = 1
  /\ BusIdle
  /\ PropIdle /\ VehIdle /\ AdmIdle
  /\ dbWars = <<>> /\ activeWars = EmptyMap
  /\ dbInvites = <<>>
  /\ \/ /\ dbFactions = <<>> /\ dbRanks = <<>>
        /\ dbChars = [p \in Players |-> NoFaction]
     \/ /\ dbFactions = <<[name |-> 1, leader_id |-> 1]>>
        /\ dbRanks = DefaultRankRows(1)
        /\ dbChars = [p \in Players |->
                        IF p = 1 THEN [faction_id |-> 1, faction_rank |-> 10] ELSE NoFaction]
  /\ chars = [p \in Players |-> LoadCharacter(dbChars[p])]
  /\ factionRanks = loadFactionRanksInto(EmptyMap, dbRanks)

\* a creation that is asked for when no other is under way
createInTurn(player, name) ==
  /\ InFlight = {}
  /\ handleFactionCreate(player, name)

NextCreate ==
  \/ \E player \in Players, name \in FactionNames : createInTurn(player, name)
  \/ createSelect \/ createInsert \/ createGet \/ createRankInsert
  \/ createReload \/ createMember
  \/ createStoreError

SpecCreate == InitCreate /\ [][NextCreate]_vars

\* Invitations as handleFactionInvite stores them: of a faction to a
\* character, created now or one clock step ago
InviteRows ==
  {[faction_id |-> f, character_id |-> c, created_at |-> t, expires_at |-> t + InviteTtl] :
     f \in Factions, c \in Players, t \in {0, 1}}

\* faction_invites holds up to two invitations, in the order of their creation
InitInvites ==
  {<<>>} \cup {<<r>> : r \in InviteRows}
    \cup {s \in {<<r1, r2>> : r1 \in InviteRows, r2 \in InviteRows} :
            s[1].created_at <= s[2].created_at}

\* Accepting invitations.  Two factions exist; character 1 is in no faction
\* or a prospect of faction 1 and is the one who accepts.
InitAccept ==
  /\ calls = <<>>
  /\ faults = MaxFaults
  /\ now = 1
  /\ BusIdle
  /\ PropIdle /\ VehIdle /\ AdmIdle
  /\ dbWars = <<>> /\ activeWars = EmptyMap
  /\ dbFactions = [f \in Factions |-> [name |-> f, leader_id |-> 0]]
  /\ dbRanks = DefaultRankRows(1) \o DefaultRankRows(2)
  /\ factionRanks = loadFactionRanks
  /\ \E m \in {NoFaction, [faction_id |-> 1, faction_rank |-> 3]} :
       dbChars = [p \in Players |-> IF p = 1 THEN m ELSE NoFaction]
  /\ chars = [p \in Players |-> LoadCharacter(dbChars[p])]
  /\ dbInvites \in InitInvites

NextAccept ==
  \/ handleFactionAccept(1)
  \/ acceptSelect \/ acceptUpdate \/ acceptDelete
  \/ acceptStoreError
  \/ Tick

SpecAccept == InitAccept /\ [][NextAccept]_vars

\* The fleet: vehicle 1 belongs to character 1 and may be impounded; its
\* keys are in the store, or not.  Character 1 can pay one vehicle and one
\* release, character 2 one release.
InitFleet ==
  /\ calls = <<>>
  /\ faults = MaxFaults
  /\ now = 1
  /\ BusIdle
  /\ FacIdle
  /\ AdmIdle
  /\ dbProperties = [id \in PropIds |->
                       [owner_id |-> 0, for_sale |-> TRUE, for_rent |-> FALSE, rented_by |-> 0]]
  /\ dbPropertyKeys = [id \in PropIds |-> <<>>]
  /\ properties = dbProperties
  /\ propertyKeys = dbPropertyKeys
  /\ EcoIdle
  /\ dbMoney = [p \in Players |-> IF p = 1 THEN VehiclePrice + ImpoundCost ELSE ImpoundCost]
  /\ \E impounded \in BOOLEAN :
       /\ dbVehicles = [id \in {1} |->
                          [owner_id |-> 1, impounded |-> impounded, deleted |-> FALSE]]
       /\ vehicles = [id \in {1} |->
                        [owner_id |-> 1, impounded |-> impounded, fuel |-> 100]]
  /\ engine = [id \in FleetIds |-> FALSE]
  /\ vehicleKeys = [id \in FleetIds |-> <<>>]
  /\ \E rows \in {<<>>, <<KeyRow(1, "owner")>>} :
       dbVehicleKeys = [id \in FleetIds |-> IF id = 1 THEN rows ELSE <<>>]

NextFleet ==
  \/ \E playerId \in Players, offered \in BOOLEAN : purchaseVehicle(playerId, offered)
  \/ purchaseVehicleSelect \/ purchaseVehicleInsert \/ purchaseVehicleDeduct
  \/ \E id \in FleetIds, p \in Players : sellVehicle(id, p)
  \/ sellVehicleCredit \/ sellVehicleDeleteKeys \/ sellVehicleMarkDeleted
  \/ \E id \in FleetIds, p \in Players : impoundVehicle(id, p)
  \/ impoundVehicleUpdate \/ impoundVehicleLog
  \/ \E id \in FleetIds, p \in Players : unimpoundVehicle(id, p)
  \/ unimpoundVehicleSelect \/ unimpoundVehicleUpdate \/ unimpoundVehicleDeduct
  \/ \E id \in FleetIds, p \in Players : handleEngine(p, id)
  \/ \E id \in FleetIds, p \in Players, kt \in {"owner", "spare"} : vehicleGiveKey(id, p, kt)
  \/ vehicleGiveKeySelect \/ vehicleGiveKeyInsert
  \/ \E id \in FleetIds, p \in Players : vehicleRemoveKey(id, p)
  \/ vehicleRemoveKeyDelete
  \/ vehicleStoreError
  \/ fleetStoreError

SpecFleet == InitFleet /\ [][NextFleet]_vars

\* The EconomyManager operations.  Character 1 holds HighCash in cash and
\* Price in the bank, character 2 holds Price in cash.
InitEco ==
  /\ calls = <<>>
  /\ faults = MaxFaults
  /\ now = 1
  /\ BusIdle
  /\ FacIdle
  /\ VehIdle
  /\ AdmIdle
  /\ dbProperties = [id \in PropIds |->
                       [owner_id |-> 0, for_sale |-> TRUE, for_rent |-> FALSE, rented_by |-> 0]]
  /\ dbPropertyKeys = [id \in PropIds |-> <<>>]
  /\ properties = dbProperties
  /\ propertyKeys = dbPropertyKeys
  /\ dbMoney = [p \in Players |-> IF p = 1 THEN HighCash ELSE Price]
  /\ dbBank = [p \in Players |-> IF p = 1 THEN Price ELSE 0]
  /\ session = [p \in Players |-> [money |-> dbMoney[p], bank_money |-> dbBank[p]]]

NextEco ==
  \/ \E characterId \in Players, amount \in {0, Price}, field \in {"cash", "bank"} :
       removeMoney(characterId, amount, field)
  \/ removeMoneySelect \/ removeMoneyUpdate
  \/ \E fromPlayer \in Players, amount \in {0, Price} :
       \E toPlayer \in Players \ {fromPlayer} :
         handleMoneyTransfer(fromPlayer, toPlayer, amount)
  \/ transferDebit \/ transferCredit
  \/ \E player \in Players, amount \in {0, Price} : handleBankDeposit(player, amount)
  \/ \E player \in Players, amount \in {0, Price} : handleBankWithdraw(player, amount)
  \/ bankUpdate
  \/ ecoRecordTransaction
  \/ ecoStoreError

SpecEco == InitEco /\ [][NextEco]_vars

\* Credits and bank operations of connected players, and their logout.
NextSave ==
  \/ \E characterId \in Players, amount \in {0, Price}, field \in {"cash", "bank"} :
       addMoney(characterId, amount, field)
  \/ addMoneyUpdate
  \/ \E player \in Players : handleBankDeposit(player, Price)
  \/ bankUpdate
  \/ ecoRecordTransaction
  \/ ecoStoreError
  \/ \E player \in Players : saveCharacterData(player)
  \/ saveCharacterUpdate
  \/ saveCharacterError

SpecSave == InitEco /\ [][NextSave]_vars

\* The event bus alone: listeners come and go, the topic is emitted.
NextBus ==
  \/ \E id \in ListenerIds, throws \in BOOLEAN : on(id, throws)
  \/ \E id \in ListenerIds, throws \in BOOLEAN : once(id, throws)
  \/ \E id \in ListenerIds : off(id)
  \/ \E args \in {1, 2} : emit(args)

InitBus ==
  /\ calls = <<>>
  /\ faults = MaxFaults
  /\ now = 1
  /\ BusIdle
  /\ FacIdle
  /\ PropIdle /\ VehIdle
  /\ AdmIdle

SpecBus == InitBus /\ [][NextBus]_vars

----------------------------------------------------------------------------
(* Properties of PropertyManager *)

Done(c) == c.pc = "done"

\* Calls a and b (a started first) ran alone and back to back: nothing was in
\* flight when either started and nothing has started since.
BackToBack(i) ==
  /\ i + 1 = Len(calls)
  /\ calls[i].during = {} /\ calls[i + 1].during = {}
  /\ Done(calls[i]) /\ Done(calls[i + 1])

\* Calls i and j were in flight at the same time, and no other call was.
OnlyConcurrentPair(i, j) ==
  /\ i < j /\ j = Len(calls)
  /\ calls[i].during = {} /\ calls[j].during = {calls[i].n}
  /\ Done(calls[i]) /\ Done(calls[j])

\* C1: two purchaseProperty calls for the same unowned, for-sale property by
\* two buyers with enough cash, in flight at the same time with no store
\* failure: exactly one returns success, the final owner (memory and store)
\* is that buyer, and the two buyers together were debited the price once.
C1_ExactlyOnePurchaseWins ==
  \A i, j \in 1..Len(calls) :
    LET a == calls[i]
        b == calls[j]
    IN ( /\ OnlyConcurrentPair(i, j)
         /\ a.op = "purchaseProperty" /\ b.op = "purchaseProperty"
         /\ a.id = b.id /\ a.pl # b.pl
         /\ ~a.err /\ ~b.err
         /\ a.m0 >= Price /\ b.m0 >= Price )
       => /\ a.ok # b.ok
          /\ properties[a.id].owner_id = (IF a.ok THEN a.pl ELSE b.pl)
          /\ dbProperties[a.id].owner_id = properties[a.id].owner_id
          /\ dbMoney[a.pl] + dbMoney[b.pl] = a.m0 + b.m0 - Price

\* C3: no property is at once owned and for sale, in memory or in the store,
\* in any state reached by interleaved purchase, sell, rent, giveKey and
\* removeKey calls (store failures included).
C3_NeverOwnedAndForSale ==
  \A id \in PropIds :
    /\ ~(properties[id].owner_id # 0 /\ properties[id].for_sale)
    /\ ~(dbProperties[id].owner_id # 0 /\ dbProperties[id].for_sale)

\* a purchase has succeeded and a later sale has put the property back
C3_Witness ==
  \E i, j \in 1..Len(calls) :
    /\ i < j
    /\ calls[i].op = "purchaseProperty" /\ calls[i].ok
    /\ calls[j].op = "sellProperty" /\ calls[j].ok
    /\ properties[calls[j].id].for_sale

\* C6: a successful purchaseProperty directly followed by a successful
\* sellProperty of the same property by the same actor, with nothing else in
\* between, leaves the actor's cash at initial - price + floor(0.8 * price),
\* the property unowned and for sale, and no key for it in store or memory.
C6_PurchaseSellRoundTrip ==
  \A i \in 1..Len(calls) :
    ( /\ i < Len(calls) /\ BackToBack(i)
      /\ calls[i].op = "purchaseProperty" /\ calls[i].ok
      /\ calls[i + 1].op = "sellProperty" /\ calls[i + 1].ok
      /\ calls[i].id = calls[i + 1].id /\ calls[i].pl = calls[i + 1].pl )
    => LET id == calls[i].id
           pl == calls[i].pl
       IN /\ dbMoney[pl] = calls[i].m0 - Price + (Price * 8) \div 10
          /\ dbProperties[id].owner_id = 0 /\ dbProperties[id].for_sale
          /\ properties[id].owner_id = 0 /\ properties[id].for_sale
          /\ dbPropertyKeys[id] = <<>> /\ propertyKeys[id] = <<>>
          /\ \A h \in Players : ~hasPropertyKey(id, h)

\* the round trip has happened: a purchase and then a sale by the buyer
C6_Witness ==
  /\ Len(calls) = 2 /\ BackToBack(1)
  /\ calls[1].op = "purchaseProperty" /\ calls[1].ok
  /\ calls[2].op = "sellProperty" /\ calls[2].ok
  /\ calls[1].pl = calls[2].pl

\* C7: giveKey(asset, holder, "spare") called twice back to back, on a
\* property or on a vehicle, for a holder who had no key of the asset and with
\* no store failure: the first call succeeds, the second fails, and store and
\* memory each hold exactly one key for the pair.
C7_GiveKeyTwice ==
  \A i \in 1..Len(calls) :
    ( /\ i < Len(calls) /\ BackToBack(i)
      /\ calls[i].op \in {"giveKey", "vehicle.giveKey"}
      /\ calls[i + 1].op = calls[i].op
      /\ calls[i].id = calls[i + 1].id /\ calls[i].pl = calls[i + 1].pl
      /\ calls[i].kt = "spare" /\ calls[i + 1].kt = "spare"
      /\ ~calls[i].had
      /\ ~calls[i].err /\ ~calls[i + 1].err )
    => LET id == calls[i].id
           pl == calls[i].pl
       IN /\ calls[i].ok /\ ~calls[i + 1].ok
          /\ calls[i].op = "giveKey" =>
               /\ KeyCount(dbPropertyKeys[id], pl) = 1
               /\ KeyCount(propertyKeys[id], pl) = 1
          /\ calls[i].op = "vehicle.giveKey" =>
               /\ KeyCount(dbVehicleKeys[id], pl) = 1
               /\ KeyCount(vehicleKeys[id], pl) = 1

\* both calls on a vehicle have returned, the first with success
C7_Witness ==
  /\ Len(calls) = 2 /\ BackToBack(1)
  /\ calls[1].op = "vehicle.giveKey" /\ calls[2].op = "vehicle.giveKey"
  /\ calls[1].id = calls[2].id /\ calls[1].pl = calls[2].pl
  /\ calls[1].kt = "spare" /\ calls[2].kt = "spare"
  /\ calls[1].ok /\ ~calls[2].ok /\ ~calls[2].err

\* C10: once all calls have returned and no store query has failed, an owned
\* property has exactly one owner key, held by its owner, in store and
\* memory.
C10_OneOwnerKeyForOwner ==
  (InFlight = {} /\ faults = MaxFaults) =>
    \A id \in PropIds :
      /\ properties[id].owner_id # 0 =>
           \E k \in 1..Len(propertyKeys[id]) :
             /\ OwnerKeys(propertyKeys[id]) = {k}
             /\ propertyKeys[id][k].player_id = properties[id].owner_id
      /\ dbProperties[id].owner_id # 0 =>
           \E k \in 1..Len(dbPropertyKeys[id]) :
             /\ OwnerKeys(dbPropertyKeys[id]) = {k}
             /\ dbPropertyKeys[id][k].player_id = dbProperties[id].owner_id

\* C11: every (asset, holder) pair has at most one key, in the store and in
\* the in-memory key list, for properties and for vehicles.
C11_OneKeyPerPair ==
  /\ \A id \in PropIds, p \in Players :
       KeyCount(dbPropertyKeys[id], p) <= 1 /\ KeyCount(propertyKeys[id], p) <= 1
  /\ \A id \in VehIds, p \in Players :
       KeyCount(dbVehicleKeys[id], p) <= 1 /\ KeyCount(vehicleKeys[id], p) <= 1

\* the rows of s without the keys of holder p that are not of kind owner
WithoutNonOwnerKeys(s, p) ==
  SelectSeq(s, LAMBDA r : ~(r.player_id = p /\ r.key_type # "owner"))

\* C12: the step in which a removeKey(asset, holder) call returns without a
\* store failure: it returns success exactly when the store held a key of the
\* holder that is not of kind owner; on success store and memory lose the
\* holder's non-owner keys and nothing else (owner keys and other holders'
\* keys stay), on failure both are unchanged.  PropertyManager and
\* VehicleManager.
C12_RemoveKeyNeverRemovesOwnerKey ==
  [][\A i \in 1..Len(calls) :
       ( /\ calls[i].op \in {"removeKey", "vehicle.removeKey"}
         /\ calls[i].pc = "delete"
         /\ Len(calls') = Len(calls)
         /\ calls'[i].pc = "done" /\ ~calls'[i].err )
       => LET id == calls[i].id
              p == calls[i].pl
              isProp == calls[i].op = "removeKey"
              store == IF isProp THEN dbPropertyKeys[id] ELSE dbVehicleKeys[id]
              memory == IF isProp THEN propertyKeys[id] ELSE vehicleKeys[id]
              storeAfter == IF isProp THEN dbPropertyKeys'[id] ELSE dbVehicleKeys'[id]
              memoryAfter == IF isProp THEN propertyKeys'[id] ELSE vehicleKeys'[id]
              hasNonOwner == \E k \in 1..Len(store) :
                               store[k].player_id = p /\ store[k].key_type # "owner"
          IN /\ calls'[i].ok <=> hasNonOwner
             /\ calls'[i].ok =>
                  /\ storeAfter = WithoutNonOwnerKeys(store, p)
                  /\ memoryAfter = WithoutNonOwnerKeys(memory, p)
             /\ ~calls'[i].ok => (storeAfter = store /\ memoryAfter = memory)
             /\ Cardinality(OwnerKeys(storeAfter)) = Cardinality(OwnerKeys(store))
             /\ Cardinality(OwnerKeys(memoryAfter)) = Cardinality(OwnerKeys(memory))
     ]_vars

\* one removeKey call has removed a key, and one was refused for a holder
\* whose key is the owner key
C12_Witness ==
  /\ \E i \in 1..Len(calls) :
       /\ calls[i].op \in {"removeKey", "vehicle.removeKey"}
       /\ Done(calls[i]) /\ calls[i].ok
  /\ \E j \in 1..Len(calls) :
       /\ calls[j].op = "removeKey"
       /\ Done(calls[j]) /\ ~calls[j].ok /\ ~calls[j].err
       /\ \E k \in 1..Len(dbPropertyKeys[calls[j].id]) :
            /\ dbPropertyKeys[calls[j].id][k].player_id = calls[j].pl
            /\ dbPropertyKeys[calls[j].id][k].key_type = "owner"

\* C29: while and after a purchaseProperty call that got past its checks,
\* ran alone, met no store failure and was not preceded by a giveKey of an
\* owner key, the memory shows either all or none of: the buyer as owner,
\* for_sale false, an owner key of the buyer.
C29_PurchaseAllOrNothing ==
  \A i \in 1..Len(calls) :
    ( /\ calls[i].op = "purchaseProperty"
      /\ i = Len(calls) /\ calls[i].during = {} /\ faults = MaxFaults
      /\ (calls[i].pc # "done" \/ calls[i].ok)
      /\ \A j \in 1..(i - 1) : ~(calls[j].op = "giveKey" /\ calls[j].kt = "owner") )
    => LET id == calls[i].id
           owner == properties[id].owner_id = calls[i].pl
           sold == ~properties[id].for_sale
           key == \E k \in 1..Len(propertyKeys[id]) :
                    /\ propertyKeys[id][k].player_id = calls[i].pl
                    /\ propertyKeys[id][k].key_type = "owner"
       IN (owner /\ sold /\ key) \/ (~owner /\ ~sold /\ ~key)

\* C31: when a store call fails during purchaseProperty (the SELECT of the
\* funds, the ownership UPDATE, the debit or the key INSERT), the call returns
\* failure and nothing of it remains: the property is unowned and for sale in
\* the store and in memory as before, the buyer's cash is what it was and the
\* buyer has no owner key.  Read for the first call after the load, run alone.
C31_FailedPurchaseLeavesNothing ==
  \A i \in 1..Len(calls) :
    (/\ calls[i].op = "purchaseProperty" /\ calls[i].n = 1
     /\ i = Len(calls) /\ calls[i].during = {} /\ calls[i].pc = "done"
     /\ calls[i].err)
      => LET id == calls[i].id
         IN /\ ~calls[i].ok
            /\ dbProperties[id].owner_id = 0 /\ dbProperties[id].for_sale
            /\ properties[id].owner_id = 0 /\ properties[id].for_sale
            /\ dbMoney[calls[i].pl] = calls[i].m0
            /\ ~\E k \in 1..Len(dbPropertyKeys[id]) :
                  /\ dbPropertyKeys[id][k].player_id = calls[i].pl
                  /\ dbPropertyKeys[id][k].key_type = "owner"
            /\ ~\E k \in 1..Len(propertyKeys[id]) :
                  /\ propertyKeys[id][k].player_id = calls[i].pl
                  /\ propertyKeys[id][k].key_type = "owner"

\* C33: of two sellProperty calls by the owner for the same property that
\* are in flight at once and meet no store failure, exactly one returns
\* success, and the owner's cash has grown by the sale price exactly once.
C33_SellerCreditedOnce ==
  \A i, j \in 1..Len(calls) :
    (/\ calls[i].op = "sellProperty" /\ calls[j].op = "sellProperty"
     /\ calls[i].id = calls[j].id /\ calls[i].pl = calls[j].pl
     /\ calls[i].n = 1 /\ calls[j].during = {1}
     /\ calls[i].pc = "done" /\ calls[j].pc = "done"
     /\ faults = MaxFaults)
      => /\ calls[i].ok # calls[j].ok
         /\ dbMoney[calls[i].pl] = calls[i].m0 + SellPrice(Price)

\* C21: no property is at once rented and for sale, in memory or in the
\* store.
C21_NeverRentedAndForSale ==
  \A id \in PropIds :
    /\ ~(properties[id].rented_by # 0 /\ properties[id].for_sale)
    /\ ~(dbProperties[id].rented_by # 0 /\ dbProperties[id].for_sale)

----------------------------------------------------------------------------
(* Properties of AdminManager *)

\* the operations that ask for a permission
ModerationOps ==
  {"kickPlayer", "banPlayer", "unbanPlayer", "mutePlayer", "unmutePlayer",
   "warnPlayer", "acceptReport", "closeReport"}

\* C2: a call of kickPlayer, banPlayer, unbanPlayer, mutePlayer, unmutePlayer,
\* warnPlayer, acceptReport or closeReport by an actor whose admin level was 0
\* when the call started returns failure, and has executed no store write,
\* appended no audit entry and emitted no event.
C2_LevelZeroActorIsDenied ==
  \A i \in 1..Len(calls) :
    (calls[i].op \in ModerationOps /\ Done(calls[i]) /\ calls[i].l0)
    => (~calls[i].ok /\ ~calls[i].w /\ ~calls[i].lg /\ ~calls[i].ev)

\* C4: every target has at most one active ban row and at most one active
\* mute row.
C4_OneActiveBanAndMute ==
  \A t \in Players :
    /\ Cardinality(ActiveRows(dbBans, t)) <= 1
    /\ Cardinality(ActiveRows(dbMutes, t)) <= 1

\* C5: every reporter has at most one open report in the active index and at
\* most one open row in player_reports.
C5_OneOpenReportPerReporter ==
  \A r \in Players :
    /\ Cardinality({id \in DOMAIN activeReports :
                      /\ activeReports[id].reporter_id = r
                      /\ activeReports[id].status = "open"}) <= 1
    /\ Cardinality({k \in 1..Len(dbReports) :
                      /\ dbReports[k].reporter_id = r
                      /\ dbReports[k].status = "open"}) <= 1

\* C8: when a setAdminLevel(actor, 0, permissions, setBy) call that ran with
\* no other call in flight has returned success, getAdminLevel(actor) is 0
\* and hasPermission(actor, c) is false for every capability c, whatever the
\* actor's grant was and whatever permissions were passed.
C8_RevokedActorHasNothing ==
  \A i \in 1..Len(calls) :
    ( /\ i = Len(calls) /\ calls[i].during = {}
      /\ calls[i].op = "setAdminLevel" /\ calls[i].level = 0
      /\ Done(calls[i]) /\ calls[i].ok )
    => /\ getAdminLevel(calls[i].targetId) = 0
       /\ \A c \in Capabilities : ~hasPermission(calls[i].targetId, c)

\* a grant holder was revoked with a permission list that names everything
C8_Witness ==
  /\ calls # <<>>
  /\ LET c == calls[Len(calls)]
     IN /\ c.op = "setAdminLevel" /\ c.level = 0 /\ c.permissions = {"*"}
        /\ c.during = {} /\ Done(c) /\ c.ok /\ c.had
        /\ getAdminLevel(c.targetId) = 0

\* C9: with no setAdminLevel call in flight, getAdminLevel(actor) = 0 exactly
\* when the actor has no entry in the grant map and no active row in
\* admin_levels.
C9_LevelZeroIffNoActiveGrant ==
  InFlight = {} =>
    \A p \in Players :
      (getAdminLevel(p) = 0)
        <=> ( /\ p \notin DOMAIN adminLevels
              /\ ~(p \in DOMAIN dbAdminLevels /\ dbAdminLevels[p].active) )

\* C13: a report whose durable status is closed keeps that status in every
\* later step, whatever acceptReport and closeReport calls are in flight.
C13_ClosedStaysClosed ==
  [][\A id \in DOMAIN dbReports :
       dbReports[id].status = "closed"
         => (id \in DOMAIN dbReports' /\ dbReports'[id].status = "closed")]_vars

\* C14: of the acceptReport calls made on one report, at most one returns
\* success.
C14_AtMostOneAccept ==
  \A i, j \in 1..Len(calls) :
    ( /\ i < j
      /\ calls[i].op = "acceptReport" /\ calls[j].op = "acceptReport"
      /\ calls[i].targetId = calls[j].targetId
      /\ Done(calls[i]) /\ Done(calls[j]) )
    => ~(calls[i].ok /\ calls[j].ok)

\* C15: a closeReport call on a report that was in the active index when the
\* call started, and that met no store failure, returns success exactly when
\* the caller was the assigned admin or held close_any_report (directly or
\* through "*"); a rejected call has written nothing and emitted nothing; a
\* successful call that ran alone leaves the report closed in the store and
\* out of the active index.
C15_CloseReportAuthorisation ==
  \A i \in 1..Len(calls) :
    ( /\ calls[i].op = "closeReport" /\ Done(calls[i]) /\ ~calls[i].err
      /\ calls[i].found )
    => /\ calls[i].ok <=> (calls[i].asg = calls[i].adminId \/ calls[i].cap)
       /\ ~calls[i].ok => (~calls[i].w /\ ~calls[i].ev)
       /\ ( /\ calls[i].ok /\ i = Len(calls) /\ calls[i].during = {}
            /\ InFlight = {} )
          => /\ calls[i].targetId \notin DOMAIN activeReports
             /\ dbReports[calls[i].targetId].status = "closed"

\* a holder of close_any_report has closed a report nobody was assigned to,
\* the assigned admin has closed without that permission, and another caller
\* has been rejected
C15_Witness ==
  /\ \E i \in 1..Len(calls) :
       /\ calls[i].op = "closeReport" /\ Done(calls[i]) /\ calls[i].ok
       /\ calls[i].found /\ calls[i].asg = 0 /\ calls[i].cap
  /\ \E i \in 1..Len(calls) :
       /\ calls[i].op = "closeReport" /\ Done(calls[i]) /\ ~calls[i].err
       /\ calls[i].found /\ ~calls[i].ok

\* C16: a createReport call made while its reporter has a report of status
\* open in the active index returns failure, inserts no row, adds nothing to
\* the index and emits no admin:newReport.
C16_SecondReportRejected ==
  \A i \in 1..Len(calls) :
    (calls[i].op = "createReport" /\ calls[i].open0)
    => /\ Done(calls[i]) /\ ~calls[i].ok /\ ~calls[i].err
       /\ ~calls[i].w /\ ~calls[i].ev /\ calls[i].rid = 0

\* a reporter whose first createReport succeeded has had a second one rejected
C16_Witness ==
  \E i, j \in 1..Len(calls) :
    /\ i < j
    /\ calls[i].op = "createReport" /\ calls[j].op = "createReport"
    /\ calls[i].adminId = calls[j].adminId
    /\ Done(calls[i]) /\ calls[i].ok /\ calls[j].open0 /\ Done(calls[j]) /\ ~calls[j].ok

\* C17: when the UPDATE of an unbanPlayer (unmutePlayer) call by an admin
\* holding the capability resolves without a store failure, the call goes on
\* to success exactly when the target had an active ban (mute): with none it
\* returns failure in that step, with the ban (mute) rows and the audit log
\* in store and memory unchanged; with one, the target has no active ban
\* (mute) after the step, and the call's last step returns success.
C17_UnbanNeedsActiveBan ==
  [][\A i \in 1..Len(calls) :
       ( /\ calls[i].op \in {"unbanPlayer", "unmutePlayer"}
         /\ calls[i].pc # "done" /\ Len(calls') = Len(calls)
         /\ calls'[i].pc # calls[i].pc /\ ~calls'[i].err )
       => LET t == calls[i].targetId
              rows == IF calls[i].op = "unbanPlayer" THEN dbBans ELSE dbMutes
              rowsAfter == IF calls[i].op = "unbanPlayer" THEN dbBans' ELSE dbMutes'
              active == \E k \in 1..Len(rows) : rows[k].player_id = t /\ rows[k].active
              activeAfter == \E k \in 1..Len(rowsAfter) :
                               rowsAfter[k].player_id = t /\ rowsAfter[k].active
          IN IF calls[i].pc = "update"
             THEN /\ active => (calls'[i].pc = "log" /\ ~activeAfter)
                  /\ ~active => /\ calls'[i].pc = "done" /\ ~calls'[i].ok
                                /\ rowsAfter = rows
                                /\ dbLogs' = dbLogs /\ adminActions' = adminActions
             ELSE calls'[i].pc = "done" /\ calls'[i].ok
    ]_vars

\* an unbanPlayer call has succeeded on a target that was banned
C17_Witness ==
  \E i \in 1..Len(calls) :
    /\ calls[i].op = "unbanPlayer" /\ Done(calls[i]) /\ calls[i].ok
    /\ \E k \in 1..Len(dbBans) : dbBans[k].player_id = calls[i].targetId
    /\ \A k \in 1..Len(dbBans) : ~dbBans[k].active

\* C18: once a banPlayer call with duration 0 has returned success, the
\* store holds its ban with expires_at null and, whatever the clock shows,
\* an isPlayerBanned query on the target that meets no store failure answers
\* true, as long as no unbanPlayer call on the target has deactivated the
\* ban since.
C18_PermanentBanHolds ==
  \A i \in 1..Len(calls) :
    ( /\ calls[i].op = "banPlayer" /\ calls[i].level = 0
      /\ Done(calls[i]) /\ calls[i].ok
      /\ ~calls[i].lifted )
    => /\ isPlayerBanned(calls[i].targetId)
       /\ \E k \in 1..Len(dbBans) :
            /\ dbBans[k].player_id = calls[i].targetId
            /\ dbBans[k].banned_by = calls[i].adminId
            /\ dbBans[k].active /\ dbBans[k].expires_at = 0

\* a permanent ban is in force when the clock has reached its last value
C18_Witness ==
  \E i \in 1..Len(calls) :
    /\ calls[i].op = "banPlayer" /\ calls[i].level = 0
    /\ Done(calls[i]) /\ calls[i].ok
    /\ ~calls[i].lifted
    /\ now = MaxTime

\* getAdminLevel and hasPermission as a grant map m answers them
LevelIn(m, p) == IF p \in DOMAIN m THEN m[p].level ELSE 0

PermIn(m, p, c) ==
  /\ p \in DOMAIN m
  /\ (c \in m[p].permissions \/ "*" \in m[p].permissions)

\* C26: the step in which the upsert of a setAdminLevel call fails returns
\* failure and leaves the grant map, the audit buffer and the audit table as
\* they were; the failed call has appended no audit entry.
C26_FailedUpsertChangesNothing ==
  [][\A i \in 1..Len(calls) :
       ( /\ calls[i].op = "setAdminLevel" /\ calls[i].pc = "upsert"
         /\ Len(calls') = Len(calls) /\ calls'[i].err )
       => /\ calls'[i].pc = "done" /\ ~calls'[i].ok /\ ~calls'[i].lg
          /\ adminLevels' = adminLevels
          /\ dbAdminLevels' = dbAdminLevels
          /\ adminActions' = adminActions /\ dbLogs' = dbLogs
    ]_vars

\* the upsert of a call that would have changed the grant map has failed
C26_Witness ==
  \E i \in 1..Len(calls) :
    /\ calls[i].op = "setAdminLevel" /\ Done(calls[i]) /\ calls[i].err
    /\ ~calls[i].ok /\ ~calls[i].w
    /\ SetAdminMemory(adminLevels, calls[i].targetId, calls[i].level,
                      calls[i].permissions) # adminLevels

\* C27: after a setAdminLevel call with 0 <= level <= 10 that ran alone and
\* returned success, the map loadAdminLevels builds from the store answers
\* getAdminLevel and hasPermission as the grant map in memory does, for
\* every actor and capability.
C27_ReloadAgreesWithMemory ==
  \A i \in 1..Len(calls) :
    ( /\ calls[i].op = "setAdminLevel" /\ Done(calls[i]) /\ calls[i].ok
      /\ calls[i].level >= 0 /\ calls[i].level <= 10
      /\ i = Len(calls) /\ calls[i].during = {} /\ InFlight = {} )
    => \A p \in Players, c \in Capabilities :
         /\ LevelIn(loadAdminLevels(dbAdminLevels), p) = LevelIn(adminLevels, p)
         /\ PermIn(loadAdminLevels(dbAdminLevels), p, c) <=> PermIn(adminLevels, p, c)

\* C28: whenever no setAdminLevel call is in flight, every actor's level in
\* memory is the level of the actor's active row (0 without one), and an
\* actor of a level above 0 has the permission set of the row.
C28_MemoryAgreesWithStore ==
  (\A i \in InFlight : calls[i].op # "setAdminLevel")
  => \A p \in Players :
       /\ LevelIn(adminLevels, p) = LevelIn(loadAdminLevels(dbAdminLevels), p)
       /\ LevelIn(adminLevels, p) > 0
            => adminLevels[p].permissions = dbAdminLevels[p].permissions

----------------------------------------------------------------------------
(* Properties of FactionManager *)

\* C19: a handleFactionKick call reaches its UPDATE only if the caller's
\* rank held the kick permission and the target's rank was strictly lower
\* than the caller's when the call started; a call whose target had an equal
\* or higher rank (the caller themself included) is rejected without a
\* store write, and the step that rejects it changes no character.
C19_KickOnlyLowerRank ==
  \A i \in 1..Len(calls) :
    calls[i].op = "handleFactionKick"
    => /\ (calls[i].pc = "update" \/ calls[i].w)
            => /\ calls[i].perm0
               /\ calls[i].target # 0 /\ calls[i].tr0 < calls[i].cr0
       /\ (calls[i].target # 0 /\ calls[i].tr0 >= calls[i].cr0)
            => /\ Done(calls[i]) /\ ~calls[i].ok /\ ~calls[i].w
               /\ (i = Len(calls) /\ calls[i].during = {})
                    => /\ chars[calls[i].target].faction_id = calls[i].tf0
                       /\ chars[calls[i].target].faction_rank = calls[i].tr0
                       /\ dbChars[calls[i].target].faction_id = calls[i].tf0
                       /\ dbChars[calls[i].target].faction_rank = calls[i].tr0

\* a lieutenant's kick of an equal-ranked member of the same faction was
\* rejected, and a kick of a lower-ranked member has removed the target
C19_Witness ==
  /\ \E i \in 1..Len(calls) :
       /\ calls[i].op = "handleFactionKick" /\ calls[i].perm0
       /\ calls[i].target # 0 /\ calls[i].tf0 = calls[i].f0
       /\ calls[i].tr0 = calls[i].cr0 /\ Done(calls[i]) /\ ~calls[i].ok
  /\ \E j \in 1..Len(calls) :
       /\ calls[j].op = "handleFactionKick" /\ Done(calls[j]) /\ calls[j].ok
       /\ chars[calls[j].target].faction_id = 0

\* C20: every unordered pair of factions has at most one active war, in
\* activeWars and in table faction_wars.
C20_OneActiveWarPerPair ==
  \A a, b \in Factions :
    /\ Cardinality({id \in DOMAIN activeWars :
         {activeWars[id].faction1_id, activeWars[id].faction2_id} = {a, b}}) <= 1
    /\ Cardinality({k \in 1..Len(dbWars) :
         /\ dbWars[k].status = "active"
         /\ {dbWars[k].faction1_id, dbWars[k].faction2_id} = {a, b}}) <= 1

----------------------------------------------------------------------------
(* Properties of VehicleManager *)

\* the call is finished, nothing was in flight when it started and nothing
\* has started since
RanAlone(i) == i = Len(calls) /\ calls[i].during = {} /\ Done(calls[i])

\* C37: right after the load at a start, before any call, the key index
\* agrees with the key tables: hasVehicleKey(v, p) is true exactly when
\* vehicle_keys holds a row for (v, p), and hasPropertyKey(id, p) exactly when
\* property_keys holds a row for (id, p).
C37_LoadedKeysMatchStore ==
  calls = <<>> =>
    /\ \A v \in VehIds, p \in Players :
         hasVehicleKey(v, p) <=> ExistingKey(dbVehicleKeys[v], p)
    /\ \A id \in PropIds, p \in Players :
         hasPropertyKey(id, p) <=> ExistingKey(dbPropertyKeys[id], p)

\* C32: a credit stored by addMoney for a connected character is still in
\* the store after that character's next saveCharacterData: when the save
\* follows the credit with no call in between and meets no store failure, the
\* stored cash and bank balance after it are what they were right after the
\* credit.
C32_SaveKeepsStoredBalances ==
  \A i, j \in 1..Len(calls) :
    (/\ calls[i].op = "addMoney" /\ calls[i].pc = "done" /\ calls[i].ok
     /\ calls[i].during = {}
     /\ calls[j].op = "saveCharacterData" /\ calls[j].pl = calls[i].pl
     /\ calls[j].n = calls[i].n + 1 /\ calls[j].during = {}
     /\ j = Len(calls) /\ calls[j].pc = "done" /\ ~calls[j].err)
      => /\ dbMoney[calls[j].pl] = calls[j].cash0
         /\ dbBank[calls[j].pl] = calls[j].bank0

\* C39: after the load and faction creations that ran one after another and
\* met no store failure, the rank list in memory of every faction of the
\* store holds exactly ten ranks, of the levels 1 to 10, and the leader of
\* every faction is a member of it at level 10.
C39_TenRanksAndLeader ==
  (/\ InFlight = {} /\ faults = MaxFaults
   /\ \A i \in 1..Len(calls) : calls[i].during = {})
    => \A f \in 1..Len(dbFactions) :
         /\ f \in DOMAIN factionRanks
         /\ Len(factionRanks[f]) = 10
         /\ \A l \in 1..10 : factionRanks[f][l].level = l
         /\ dbChars[dbFactions[f].leader_id] = [faction_id |-> f, faction_rank |-> 10]
         /\ chars[dbFactions[f].leader_id].faction_id = f
         /\ chars[dbFactions[f].leader_id].faction_rank = 10

\* C40: a handleFactionAccept that runs alone and meets no store failure.
\* When the actor is in a faction, the call ends with a refusal and changes
\* nothing.  When the actor has no invitation that has not expired, the call
\* ends with a refusal and changes nothing.  Otherwise the call takes an
\* invitation of the actor that has not expired and than which none is more
\* recent, stores the actor in its faction at rank 1, deletes that invitation
\* and no other row, and shows the actor in that faction at rank 1.
C40_AcceptTakesLatestInvite ==
  [][/\ (/\ calls' # calls /\ calls' # <<>>
         /\ calls'[Len(calls')].op = "handleFactionAccept"
         /\ calls'[Len(calls')].n = NextN)
        => /\ UNCHANGED facVars
           /\ chars[calls'[Len(calls')].player].faction_id # 0
                => calls'[Len(calls')].pc = "done" /\ ~calls'[Len(calls')].ok
     /\ \A i \in InFlight :
          (/\ calls[i].op = "handleFactionAccept"
           /\ i = Len(calls') /\ calls[i].during = {}
           /\ faults = MaxFaults /\ faults' = faults
           /\ calls'[i].pc # calls[i].pc)
            => LET p == calls[i].player
                   open == {id \in DOMAIN dbInvites :
                              /\ dbInvites[id].character_id = p
                              /\ dbInvites[id].expires_at > now}
               IN CASE calls[i].pc = "select" ->
                         /\ UNCHANGED facVars
                         /\ IF open = {}
                            THEN calls'[i].pc = "done" /\ ~calls'[i].ok
                            ELSE /\ calls'[i].pc = "update"
                                 /\ calls'[i].rid \in open
                                 /\ \A id \in open : dbInvites[id].created_at
                                                      <= dbInvites[calls'[i].rid].created_at
                 [] calls[i].pc = "update" ->
                         /\ dbChars' = [dbChars EXCEPT ![p] =
                                          [faction_id |-> dbInvites[calls[i].rid].faction_id,
                                           faction_rank |-> 1]]
                         /\ UNCHANGED <<chars, dbInvites, dbFactions, dbRanks>>
                 [] calls[i].pc = "delete" ->
                         /\ calls'[i].pc = "done" /\ calls'[i].ok
                         /\ DOMAIN dbInvites' = DOMAIN dbInvites \ {calls[i].rid}
                         /\ \A id \in DOMAIN dbInvites' : dbInvites'[id] = dbInvites[id]
                         /\ dbChars' = dbChars
                         /\ chars'[p].faction_id = dbChars[p].faction_id
                         /\ chars'[p].faction_rank = 1
                         /\ \A q \in Players \ {p} : chars'[q] = chars[q]
                 [] OTHER -> FALSE]_vars

\* an actor with two invitations, neither of which has expired by now,
\* joined the faction of one at rank 1, and the older invitation of the other
\* faction is still stored
C40_Witness ==
  \E i \in 1..Len(calls) :
    /\ calls[i].op = "handleFactionAccept" /\ calls[i].pc = "done" /\ calls[i].ok
    /\ calls[i].during = {}
    /\ dbChars[calls[i].player].faction_rank = 1
    /\ chars[calls[i].player].faction_id = dbChars[calls[i].player].faction_id
    /\ \E id \in DOMAIN dbInvites :
         /\ dbInvites[id].character_id = calls[i].player
         /\ dbInvites[id].faction_id # dbChars[calls[i].player].faction_id
         /\ dbInvites[id].created_at < 1 /\ dbInvites[id].expires_at > now

\* C30: after purchaseVehicle has returned success, and while the vehicle
\* has not been sold, the buyer holds an owner key of it: vehicle_keys has a
\* row of kind owner for (vehicleId, buyer) and hasVehicleKey(vehicleId,
\* buyer) is true.
C30_BuyerHoldsOwnerKey ==
  \A i \in 1..Len(calls) :
    (/\ calls[i].op = "purchaseVehicle" /\ Done(calls[i]) /\ calls[i].ok
     /\ calls[i].id \in DOMAIN vehicles)
      => /\ \E k \in 1..Len(dbVehicleKeys[calls[i].id]) :
              /\ dbVehicleKeys[calls[i].id][k].player_id = calls[i].pl
              /\ dbVehicleKeys[calls[i].id][k].key_type = "owner"
         /\ hasVehicleKey(calls[i].id, calls[i].pl)

\* C22: (a) a sellVehicle, giveKey, removeKey or engine command on a vehicle
\* that is impounded, run alone, is rejected; (b) while a vehicle is
\* impounded no step changes its keys, in memory or in the store, nor its
\* engine, nor removes it; (c) the flag is cleared only by a step of an
\* unimpoundVehicle call on that vehicle.
C22_ImpoundedVehicleIsFrozen ==
  /\ [](\A i \in 1..Len(calls) :
          (/\ calls[i].op \in {"sellVehicle", "vehicle.giveKey", "vehicle.removeKey",
                                "handleEngine"}
           /\ RanAlone(i) /\ calls[i].imp)
            => ~calls[i].ok)
  /\ [][\A id \in DOMAIN vehicles :
          vehicles[id].impounded
            => /\ id \in DOMAIN vehicles'
               /\ vehicleKeys'[id] = vehicleKeys[id]
               /\ dbVehicleKeys'[id] = dbVehicleKeys[id]
               /\ engine'[id] = engine[id]
               /\ ~vehicles'[id].impounded
                    => \E i \in InFlight : /\ calls[i].op = "unimpoundVehicle"
                                           /\ calls[i].id = id
                                           /\ calls'[i] # calls[i]]_vars

----------------------------------------------------------------------------
(* Properties of the audit log *)

\* C36: after any sequence of logAdminAction calls, run one after another,
\* the buffer in memory holds at most 100 entries and is, entry by entry and
\* in order, the tail of the audit rows whose INSERT succeeded.
C36_BufferIsTailOfLog ==
  LET n == Len(dbLogs)
      m == IF n > AuditCap THEN AuditCap ELSE n
  IN /\ Len(adminActions) <= AuditCap
     /\ Len(adminActions) = m
     /\ \A k \in 1..m : adminActions[k] = dbLogs[n - m + k]

\* two calls have returned, one whose INSERT failed and one that pushed the
\* buffer over the cap
C36_Witness ==
  /\ Len(calls) = 2
  /\ calls[1].op = "logAdminAction" /\ calls[2].op = "logAdminAction"
  /\ calls[1].lg # calls[2].lg
  /\ Len(dbLogs) > AuditCap
  /\ adminActions[AuditCap] # adminActions[AuditCap - 1]

\* C35: banPlayer, warnPlayer, createReport and closeReport emit their event
\* (player:kick, player:warn, admin:newReport, player:reportClosed) only in a
\* call whose own store write succeeded, so that the store holds the ban row,
\* the warning row, the report row or the closed status when the event is
\* out; a call whose own write fails returns failure and emits nothing.
C35_EventOnlyAfterOwnWrite ==
  [][/\ emitted' # emitted =>
          \E i \in InFlight :
            /\ calls[i].pc # "done" /\ calls'[i].pc = "done"
            /\ calls'[i].ok /\ ~calls'[i].err
            /\ \/ /\ calls[i].op = "banPlayer"
                  /\ emitted' = Append(emitted, [name |-> "player:kick",
                                                 playerId |-> calls[i].targetId])
                  /\ \E k \in 1..Len(dbBans) :
                       /\ dbBans[k].player_id = calls[i].targetId
                       /\ dbBans[k].banned_by = calls[i].adminId
               \/ /\ calls[i].op = "warnPlayer"
                  /\ emitted' = Append(emitted, [name |-> "player:warn",
                                                 playerId |-> calls[i].targetId])
                  /\ \E k \in 1..Len(dbWarnings) :
                       /\ dbWarnings[k].player_id = calls[i].targetId
                       /\ dbWarnings[k].warned_by = calls[i].adminId
               \/ /\ calls[i].op = "createReport"
                  /\ emitted' = Append(emitted, [name |-> "admin:newReport",
                                                 playerId |-> calls[i].adminId])
                  /\ \E k \in 1..Len(dbReports) :
                       /\ k \notin DOMAIN activeReports
                       /\ dbReports[k].reporter_id = calls[i].adminId
                       /\ dbReports[k].reported_id = calls[i].targetId
               \/ /\ calls[i].op = "closeReport"
                  /\ emitted' = Append(emitted, [name |-> "player:reportClosed",
                                                 playerId |-> calls[i].reporter])
                  /\ dbReports'[calls[i].targetId].status = "closed"
     /\ \A i \in InFlight :
          (/\ calls[i].op \in {"banPlayer", "warnPlayer", "createReport", "closeReport"}
           /\ calls[i].pc \in {"insert", "update"} /\ calls'[i].pc = "done"
           /\ faults' < faults)
            => ~calls'[i].ok /\ emitted' = emitted]_vars

\* a warning that was stored and announced next to a report whose INSERT
\* failed and which announced nothing
C35_Witness ==
  \E i, j \in 1..Len(calls) :
    /\ calls[i].op = "warnPlayer" /\ calls[i].pc = "done" /\ calls[i].ok
    /\ calls[j].op = "createReport" /\ calls[j].pc = "done" /\ calls[j].err
    /\ emitted = <<[name |-> "player:warn", playerId |-> calls[i].targetId]>>
    /\ dbWarnings # <<>>

\* C34: when the audit INSERT fails inside kickPlayer, banPlayer, mutePlayer,
\* warnPlayer or setAdminLevel, after the operation's own write succeeded,
\* the operation returns success, its stored record and its update of the
\* grant map stay, its event (player:kick for a kick or a ban, player:warn
\* for a warning) is emitted, and neither the buffer nor admin_logs gets the
\* entry.
C34_AuditFailureIsSwallowed ==
  [][\A i \in InFlight :
       (/\ calls[i].op \in {"kickPlayer", "banPlayer", "mutePlayer", "warnPlayer",
                             "setAdminLevel"}
        /\ calls[i].pc = "log" /\ calls'[i].pc = "done"
        /\ faults' < faults)
         => /\ calls'[i].ok /\ ~calls'[i].err
            /\ UNCHANGED <<grantVars, modVars, adminActions, dbLogs>>
            /\ emitted' =
                 emitted \o
                   (IF calls[i].op \in {"kickPlayer", "banPlayer"}
                    THEN <<[name |-> "player:kick", playerId |-> calls[i].targetId]>>
                    ELSE IF calls[i].op = "warnPlayer"
                    THEN <<[name |-> "player:warn", playerId |-> calls[i].targetId]>>
                    ELSE <<>>)]_vars

\* a ban whose audit INSERT failed: the ban row is stored, the kick event
\* was emitted, the call returned success and nothing was logged
C34_Witness ==
  \E i \in 1..Len(calls) :
    /\ calls[i].op = "banPlayer" /\ calls[i].pc = "done" /\ calls[i].ok /\ ~calls[i].lg
    /\ dbBans # <<>> /\ emitted # <<>>
    /\ dbLogs = <<>> /\ adminActions = <<>>

----------------------------------------------------------------------------
(* Properties of the setadmin command *)

\* C24: a setadmin command, through either entry point, whose issuer did not
\* hold the capability for setting admin levels (nor "*") is denied: it
\* never writes a grant row, never changes the grant in memory, never adds
\* an audit entry, and does not report success.
C24_SetAdminNeedsCapability ==
  \A i \in 1..Len(calls) :
    (calls[i].via # "" /\ ~calls[i].cap)
      => /\ ~calls[i].w /\ ~calls[i].lg
         /\ calls[i].pc \in {"upsert", "done"}
         /\ ~calls[i].ok

----------------------------------------------------------------------------
(* Properties of EconomyManager *)

\* C23: no character's stored cash or bank balance is ever negative,
\* whatever the interleaving of the operations that debit it.
C23_BalancesNeverNegative ==
  \A p \in Players : dbMoney[p] >= 0 /\ dbBank[p] >= 0

----------------------------------------------------------------------------
(* Properties of EventManager *)

\* C25: when a listener threw during an emit of the topic, emit returned
\* normally and every listener that was registered for the topic when the
\* emit began was invoked with the arguments of the emit.
C25_ThrowDoesNotStopOthers ==
  (lastEmit.ran /\ lastEmit.threw # {}) =>
    /\ lastEmit.returned
    /\ \A id \in lastEmit.at0 : <<id, lastEmit.args>> \in lastEmit.invoked

\* C38: every emit of the topic invokes each listener that was registered
\* when the emit was called exactly once and in registration order, also
\* when a listener registered with once() removes itself during the delivery.
C38_EveryListenerOnceInOrder ==
  lastEmit.ran => lastEmit.order = lastEmit.reg

====
